---- MODULE Spec2Model ----
(***************************************************************************)
(* Reading, detecting, parsing, merging and correlating log records (ulp). *)
(*                                                                         *)
(*   - CorrelateLogsUseCase._merge_sources : k-way merge over a heap       *)
(*   - RequestIdCorrelation / TimestampWindowCorrelation /                 *)
(*     SessionCorrelation : the three grouping strategies                  *)
(*   - CorrelateLogsUseCase.execute : strategies applied in sequence       *)
(*   - BufferedStdinSource, ChunkedFileStreamSource : stream sources       *)
(*   - FormatDetector.detect, the parsers' parse_line                      *)
(*   - NormalizationPipeline.process, the parsing entry points, render_csv *)
(*   - HostnameEnricher._resolve, LevelNormalizer.normalize                *)
(*   - ParseLogsUseCase.execute, LargeFileStreamSource's two read paths    *)
(*                                                                         *)
(* Python values: None is the string None_, a record without a timestamp   *)
(* has timestamp NoTs, datetime.min is DatetimeMin, and real timestamps    *)
(* are the naturals from DatetimeMin upwards (one unit = one second for    *)
(* the window strategy, one minute for the session strategy).              *)
(***************************************************************************)
EXTENDS Integers, Sequences, FiniteSets, TLC

\* ------------------------------------------------------------- bounds
NumSources == 2       \* at most this many sources are merged
MaxSourceLen == 2     \* at most this many records per source
MaxEntries == 3       \* at most this many records are fed to one correlate() call
MaxOrphans == 1       \* max_orphans is drawn from 0..MaxOrphans
MaxBufferSize == 2    \* buffer_size is drawn from 0..MaxBufferSize
MaxWindow == 1        \* window_seconds is drawn from 0..MaxWindow
MaxTimeout == 1       \* session_timeout_minutes is drawn from 0..MaxTimeout
MaxSessions == 1      \* max_sessions is drawn from 0..MaxSessions
MaxExecRecords == 4   \* at most this many records in all the sources of one execute()
MaxStreamLines == 3   \* at most this many lines in a stream (sys.stdin, a file)
MaxPeekLines == 2     \* peek_lines is drawn from 0..MaxPeekLines
MaxPeekCalls == 2     \* peek() is called at most this often on one source
MaxInterval == 2      \* callback_interval is drawn from 0..MaxInterval
MaxSignatures == 2    \* a detector is built with at most this many signatures
MaxSampleSize == 2    \* sample_size is drawn from 0..MaxSampleSize (0 stands for None)
MaxCacheSize == 3     \* cache_size is drawn from 0..MaxCacheSize
MaxLookups == 5       \* _resolve() is called at most this often on one enricher
MaxFileBytes == 4     \* a file read on both paths holds at most this many bytes
MaxChunkSize == 2     \* chunk_size is drawn from 1..MaxChunkSize

\* ------------------------------------------------------------- values
None == "None_"
NoTs == -1
DatetimeMin == 0

\* Python truthiness of an optional string: None and "" are falsy.
Truthy(v) == v # None /\ v # ""

SeqsUpTo(S, n) == UNION {[1..k -> S] : k \in 0..n}

Range(s) == {s[i] : i \in 1..Len(s)}

\* CorrelationIds(): every identifier defaults to None.
NoCorrelation ==
    [request_id |-> None, trace_id |-> None, correlation_id |-> None,
     session_id |-> None, user_id |-> None]

\* structured_data = {}.
EmptyDict == [f \in {} |-> ""]

\* LogEntry(): uid stands for the object's identity (id(e)); tz_aware says
\* whether the timestamp, if there is one, carries a tzinfo.
LogEntry(uid, ts) ==
    [uid |-> uid, timestamp |-> ts, tz_aware |-> FALSE, file_path |-> None,
     correlation |-> NoCorrelation, structured_data |-> EmptyDict]

\* Timestamps the merged sources carry: none, datetime.min itself, a later one.
MergeTimestamps == {NoTs, DatetimeMin, DatetimeMin + 1}

\* <<timestamp, tz_aware>> of records whose timestamps are none, naive or
\* aware: no timestamp, an instant without tzinfo, the same instant with
\* tzinfo.
MixedTimestamps ==
    {<<NoTs, FALSE>>, <<DatetimeMin + 1, FALSE>>, <<DatetimeMin + 1, TRUE>>}

VARIABLES
    sources,     \* the list of iterators handed to _merge_sources, as sequences
    cursor,      \* per source: how many records next(source) has returned
    exhausted,   \* the sources whose next() has raised StopIteration
    heap,        \* the heap, as the set of its tuples <<ts, source_id, entry>>
    output,      \* the records yielded so far
    merge_pc,    \* "idle", "prime" (the for loop), "loop" (the while loop), "done", "raised"
    prime_idx,   \* the for loop's source_id
    rid,         \* a RequestIdCorrelation instance and the frame of its correlate()
    win,         \* a TimestampWindowCorrelation instance and the frame of its correlate()
    sess,        \* a SessionCorrelation instance and the frame of its correlate()
    exec,        \* a CorrelateLogsUseCase instance and the frame of its execute()
    bstdin,      \* a BufferedStdinSource, sys.stdin and the frame of its read_lines()
    chunk,       \* a ChunkedFileStreamSource, its file and the frame of its read_lines()
    det,         \* a FormatDetector, the arguments of detect() and what it returned
    parsed,      \* a parser, the lines handed to its parse_line() and the records it returned
    pipe,        \* a NormalizationPipeline and the frame of its process()
    entrypoint,  \* a parsing entry point, its arguments and the outcome of its call
    csvout,      \* the records handed to render_csv() and the rows it wrote
    enricher,    \* a HostnameEnricher, its cache and the latest _resolve() call
    usecase,     \* a ParseLogsUseCase, its source and the frame of its execute()
    levelstep,   \* a record handed to LevelNormalizer.normalize() and the record it returned
    largefile    \* a LargeFileStreamSource, its file and the frames of its two read paths

mergeVars == <<sources, cursor, exhausted, heap, output, merge_pc, prime_idx>>
corrVars == <<sources, cursor, exhausted, heap, output, merge_pc, prime_idx,
              rid, win, sess, exec>>
ioVars == <<bstdin, chunk, det, parsed, pipe, entrypoint, csvout, enricher, usecase, levelstep, largefile>>
vars == <<corrVars, ioVars>>

\* ------------------------------------------------------------- merge
\* ts = entry.timestamp or datetime.min
TsKeyNow(e) == IF e.timestamp = NoTs THEN DatetimeMin + 2 ELSE e.timestamp
TsKey(e) == IF e.timestamp = NoTs THEN DatetimeMin ELSE e.timestamp

\* Tuple order of the heap entries: (ts, source_id, ...). The two never agree on
\* source_id, so the comparison never reaches the entry.
HeapLessTsOnly(a, b) == a[1] < b[1] \/ (a[1] = b[1] /\ a[2] > b[2])
HeapLess(a, b) == a[1] < b[1] \/ (a[1] = b[1] /\ a[2] < b[2])

\* heapq.heappop: the least tuple.
HeapTop(h) == CHOOSE a \in h : \A b \in h \ {a} : HeapLess(a, b)

\* while heap:
LoopCondMoreThanOne(h) == Cardinality(h) > 1
LoopCond(h) == h # {}

\* the heap after heappop
HeapKeepTop(h, top) == h
HeapAfterPop(h, top) == h \ {top}

\* next(source) on source i (0-based source_id i - 1): the record, if any
HasNext(i) == cursor[i] < Len(sources[i])
NextEntry(i) == sources[i][cursor[i] + 1]

\* heapq.heappush(heap, (ts, source_id, entry, source))
HeapPush(h, i, e) == h \cup {<<TsKey(e), i - 1, e>>}

\* whether ts = entry.timestamp or datetime.min carries a tzinfo (datetime.min
\* carries none)
KeyAware(e) == e.timestamp # NoTs /\ e.tz_aware

\* heappush raises TypeError: it compares the new tuple with its parent in the
\* heap, the timestamps differ as objects of which one is naive and one aware,
\* and "<" between such datetimes raises. Each tuple was compared with its
\* parent when it was pushed, so the tuples of a heap are all naive or all
\* aware, and the parent is of the kind of any of them.
HeapPushRaises(h, e) == \E a \in h : KeyAware(a[3]) # KeyAware(e)

\* ------------------------------------------------------------- dict
\* A dict is the sequence of its <<key, value>> pairs in insertion order.
DictHas(d, k) == \E n \in 1..Len(d) : d[n][1] = k

DictGet(d, k) == d[CHOOSE n \in 1..Len(d) : d[n][1] = k][2]

\* d[k] = v
DictSet(d, k, v) ==
    IF DictHas(d, k)
    THEN [n \in 1..Len(d) |-> IF d[n][1] = k THEN <<k, v>> ELSE d[n]]
    ELSE Append(d, <<k, v>>)

\* str(value) of a structured_data value; the values modelled are strings.
Str(v) == v

\* the first of fields (from position n on) that is a key of structured_data
RECURSIVE FirstField(_, _, _)
FirstField(fields, sd, n) ==
    IF n > Len(fields) THEN None
    ELSE IF fields[n] \in DOMAIN sd THEN fields[n]
    ELSE FirstField(fields, sd, n + 1)

\* ------------------------------------------------------------- RequestIdCorrelation
MAX_ORPHAN_ENTRIES == 10000
DefaultBufferSize == 10000

IdFields ==
    <<"request_id", "trace_id", "correlation_id", "span_id", "transaction_id",
      "x_request_id">>

\* RequestIdCorrelation._extract_id
ExtractId(e) ==
    LET c == e.correlation
        f == FirstField(IdFields, e.structured_data, 1)
    IN IF Truthy(c.request_id) THEN c.request_id
       ELSE IF Truthy(c.trace_id) THEN c.trace_id
       ELSE IF Truthy(c.correlation_id) THEN c.correlation_id
       ELSE IF Truthy(c.session_id) THEN c.session_id
       ELSE IF f # None THEN Str(e.structured_data[f])
       ELSE None

\* CorrelationGroup(correlation_key, correlation_type, entries): entries is the
\* list the strategy built, kept as it is
CorrelationGroupReversed(key, type, entries) ==
    [correlation_key |-> key, correlation_type |-> type,
     entries |-> [n \in 1..Len(entries) |-> entries[Len(entries) + 1 - n]]]
CorrelationGroup(key, type, entries) ==
    [correlation_key |-> key, correlation_type |-> type, entries |-> entries]

\* if len(entries) > 1 (RequestIdCorrelation._emit_groups)
EmitsGroupOfAny(entries) == Len(entries) > 0
EmitsGroup(entries) == Len(entries) > 1

\* RequestIdCorrelation._emit_groups: the groups yielded for id_groups
RECURSIVE EmitGroups(_)
EmitGroups(id_groups) ==
    IF id_groups = <<>> THEN <<>>
    ELSE (IF EmitsGroup(Head(id_groups)[2])
          THEN <<CorrelationGroup(Head(id_groups)[1], "request_id", Head(id_groups)[2])>>
          ELSE <<>>) \o EmitGroups(Tail(id_groups))

\* RequestIdCorrelation.__init__
RidNew(max_orphans) ==
    [pc |-> "idle", max_orphans |-> max_orphans, warned |-> FALSE,
     buffer_size |-> 0, id_groups |-> <<>>, orphans |-> <<>>, count |-> 0,
     emitted |-> <<>>, warnings |-> 0, dropped |-> 0, seen |-> <<>>]

\* correlate(entries, buffer_size) is entered: the locals are fresh, the instance's
\* _orphan_overflow_warned is what the earlier calls left. emitted, warnings,
\* dropped and seen record this call's yields, warnings.warn calls, dropped
\* records and consumed input.
RidEnter(st, buffer_size) ==
    [st EXCEPT !.pc = "run", !.buffer_size = buffer_size, !.id_groups = <<>>,
               !.orphans = <<>>, !.count = 0, !.emitted = <<>>, !.warnings = 0,
               !.dropped = 0, !.seen = <<>>]

\* if len(orphans) < self.max_orphans
OrphanAdmitted(st) == Len(st.orphans) < st.max_orphans

\* count += 1; if count > buffer_size
BufferExceededAtSize(st) == st.count + 1 >= st.buffer_size
BufferExceeded(st) == st.count + 1 > st.buffer_size

\* one iteration of "for entry in entries"
RidBody(st, e) ==
    LET flush == BufferExceeded(st)
        s1 == [st EXCEPT !.seen = Append(@, e),
                         !.count = IF flush THEN 0 ELSE @ + 1,
                         !.emitted = IF flush THEN @ \o EmitGroups(st.id_groups) ELSE @,
                         !.id_groups = IF flush THEN <<>> ELSE @]
        entry_id == ExtractId(e)
    IN IF Truthy(entry_id)
       THEN [s1 EXCEPT !.id_groups =
                DictSet(@, entry_id,
                        Append(IF DictHas(@, entry_id) THEN DictGet(@, entry_id) ELSE <<>>, e))]
       ELSE IF OrphanAdmitted(s1)
       THEN [s1 EXCEPT !.orphans = Append(@, e)]
       ELSE IF ~s1.warned
       THEN [s1 EXCEPT !.warnings = @ + 1, !.warned = TRUE, !.dropped = @ + 1]
       ELSE [s1 EXCEPT !.dropped = @ + 1]

\* the input is exhausted: the remaining groups are emitted
RidEnd(st) == [st EXCEPT !.pc = "done", !.emitted = @ \o EmitGroups(st.id_groups)]

\* list(strategy.correlate(iter(entries), buffer_size)) on the instance st
RECURSIVE RidFold(_, _)
RidFold(st, entries) ==
    IF entries = <<>> THEN RidEnd(st) ELSE RidFold(RidBody(st, Head(entries)), Tail(entries))

RidCorrelate(st, entries, buffer_size) == RidFold(RidEnter(st, buffer_size), entries)

\* The records fed to RequestIdCorrelation: no identifier; request_id; trace_id with
\* the same value; an empty request_id before a session_id; an identifier in
\* structured_data; an empty structured_data identifier before a non-empty one.
RidEntries ==
    LET e == LogEntry(<<0, 0>>, NoTs)
    IN {e,
        [e EXCEPT !.correlation.request_id = "a"],
        [e EXCEPT !.correlation.trace_id = "a"],
        [e EXCEPT !.correlation.request_id = "", !.correlation.session_id = "b"],
        [e EXCEPT !.structured_data = [f \in {"trace_id"} |-> "b"]],
        [e EXCEPT !.structured_data =
            [f \in {"request_id", "trace_id"} |-> IF f = "request_id" THEN "" ELSE "a"]]}

\* ------------------------------------------------------------- TimestampWindowCorrelation
DefaultMinGroupSize == 2

\* e.source.file_path or "<unknown>"
SourceName(e) == IF Truthy(e.file_path) THEN e.file_path ELSE "<unknown>"

\* min(timestamps), max(timestamps) of a non-empty list of timestamped records
MinTs(entries) ==
    CHOOSE t \in {entries[n].timestamp : n \in 1..Len(entries)} :
        \A n \in 1..Len(entries) : t <= entries[n].timestamp
MaxTs(entries) ==
    CHOOSE t \in {entries[n].timestamp : n \in 1..Len(entries)} :
        \A n \in 1..Len(entries) : t >= entries[n].timestamp

\* datetime.isoformat()
IsoFormat(t) == ToString(t)

\* TimestampWindowCorrelation.__init__
WinNew(window_seconds, require_multiple_sources) ==
    [pc |-> "idle", window |-> window_seconds, min_group_size |-> DefaultMinGroupSize,
     require_multiple_sources |-> require_multiple_sources, buffer_size |-> 0,
     current_window |-> <<>>, window_start |-> NoTs, emitted |-> <<>>, seen |-> <<>>]

\* TimestampWindowCorrelation._maybe_create_group: the group, if one is created
MaybeCreateGroup(st, entries) ==
    IF Len(entries) < st.min_group_size THEN <<>>
    ELSE IF st.require_multiple_sources
            /\ Cardinality({SourceName(entries[n]) : n \in 1..Len(entries)}) < 2
    THEN <<>>
    ELSE <<CorrelationGroup(IsoFormat(MinTs(entries)), "timestamp_window", entries)>>

\* correlate(entries, buffer_size) is entered
WinEnter(st, buffer_size) ==
    [st EXCEPT !.pc = "run", !.buffer_size = buffer_size, !.current_window = <<>>,
               !.window_start = NoTs, !.emitted = <<>>, !.seen = <<>>]

\* elif entry.timestamp - window_start <= self.window
WithinWindowOfLast(st, e) ==
    e.timestamp - st.current_window[Len(st.current_window)].timestamp <= st.window
WithinWindow(st, e) == e.timestamp - st.window_start <= st.window

\* one iteration of "for entry in entries"
WinBody(st, e) ==
    LET s0 == [st EXCEPT !.seen = Append(@, e)]
        s1 == IF st.window_start = NoTs
              THEN [s0 EXCEPT !.window_start = e.timestamp, !.current_window = <<e>>]
              ELSE IF WithinWindow(st, e)
              THEN [s0 EXCEPT !.current_window = Append(@, e)]
              ELSE [s0 EXCEPT !.emitted = @ \o MaybeCreateGroup(st, st.current_window),
                              !.window_start = e.timestamp, !.current_window = <<e>>]
    IN IF e.timestamp = NoTs THEN s0
       ELSE IF Len(s1.current_window) >= s1.buffer_size
       THEN [s1 EXCEPT !.emitted = @ \o MaybeCreateGroup(s1, s1.current_window),
                       !.current_window = <<>>, !.window_start = NoTs]
       ELSE s1

\* the input is exhausted: the final window is emitted
WinEnd(st) ==
    [st EXCEPT !.pc = "done",
               !.emitted = IF st.current_window # <<>>
                           THEN @ \o MaybeCreateGroup(st, st.current_window) ELSE @]

RECURSIVE WinFold(_, _)
WinFold(st, entries) ==
    IF entries = <<>> THEN WinEnd(st) ELSE WinFold(WinBody(st, Head(entries)), Tail(entries))

WinCorrelate(st, entries, buffer_size) == WinFold(WinEnter(st, buffer_size), entries)

\* The records fed to TimestampWindowCorrelation: without a timestamp or at second
\* 0, 1 or 2, from a.log, b.log or with no file path.
WinEntries ==
    {[LogEntry(<<0, 0>>, t) EXCEPT !.file_path = f] :
        t \in {NoTs, 0, 1, 2}, f \in {"a.log", "b.log"}}
    \cup {LogEntry(<<0, 0>>, 1)}

\* ------------------------------------------------------------- SessionCorrelation
MAX_SESSION_GROUPS == 100000
DefaultSessionTimeoutMinutes == 30
SecondsPerMinute == 60

SessionFields == <<"session_id", "user_id", "client_ip", "user_agent">>

\* _extract_session_key returning None
NoKey == <<>>

\* SessionCorrelation._extract_session_key; f"{a}:{b}" is the pair <<a, b>>
ExtractSessionKey(e) ==
    LET c == e.correlation
        f == FirstField(SessionFields, e.structured_data, 1)
    IN IF Truthy(c.session_id) THEN <<"session", c.session_id>>
       ELSE IF Truthy(c.user_id) THEN <<"user", c.user_id>>
       ELSE IF f # None THEN <<f, Str(e.structured_data[f])>>
       ELSE NoKey

\* SessionCorrelation.__init__; timedelta(minutes=...) in seconds
SessNew(session_timeout_minutes, max_sessions) ==
    [pc |-> "idle", session_timeout |-> SecondsPerMinute * session_timeout_minutes,
     max_sessions |-> max_sessions, warned |-> FALSE, buffer_size |-> 0,
     sessions |-> <<>>, emitted |-> <<>>, warnings |-> 0, dropped |-> 0, seen |-> <<>>]

\* correlate(entries, buffer_size) is entered: the locals are fresh, the instance's
\* _session_overflow_warned is what the earlier calls left
SessEnter(st, buffer_size) ==
    [st EXCEPT !.pc = "run", !.buffer_size = buffer_size, !.sessions = <<>>,
               !.emitted = <<>>, !.warnings = 0, !.dropped = 0, !.seen = <<>>]

\* if len(session_entries) >= 2: yield self._create_group(...)
SessionGroup(key, entries) ==
    IF Len(entries) >= 2 THEN <<CorrelationGroup(key, "session", entries)>> ELSE <<>>

\* entry.timestamp - last_ts > self.session_timeout, both present
TimedOutReversed(st, last_ts, e) ==
    last_ts # NoTs /\ e.timestamp # NoTs /\ last_ts - e.timestamp > st.session_timeout
TimedOut(st, last_ts, e) ==
    last_ts # NoTs /\ e.timestamp # NoTs /\ e.timestamp - last_ts > st.session_timeout

\* session_key not in sessions and len(sessions) >= self.max_sessions
SessionsFull(st, key) == ~DictHas(st.sessions, key) /\ Len(st.sessions) >= st.max_sessions

\* one iteration of "for entry in entries"
SessBody(st, e) ==
    LET s0 == [st EXCEPT !.seen = Append(@, e)]
        key == ExtractSessionKey(e)
        cur == IF DictHas(st.sessions, key) THEN DictGet(st.sessions, key)
               ELSE <<<<>>, NoTs>>
    IN IF key = NoKey THEN s0
       ELSE IF SessionsFull(st, key)
       THEN IF ~st.warned
            THEN [s0 EXCEPT !.warnings = @ + 1, !.warned = TRUE, !.dropped = @ + 1]
            ELSE [s0 EXCEPT !.dropped = @ + 1]
       ELSE IF TimedOut(st, cur[2], e)
       THEN [s0 EXCEPT !.emitted = @ \o SessionGroup(key, cur[1]),
                       !.sessions = DictSet(@, key, <<<<e>>, e.timestamp>>)]
       ELSE [s0 EXCEPT !.sessions =
                DictSet(@, key, <<Append(cur[1], e),
                                  IF e.timestamp # NoTs THEN e.timestamp ELSE cur[2]>>)]

\* the groups of the sessions left when the input is exhausted
RECURSIVE RemainingSessions(_)
RemainingSessions(sessions) ==
    IF sessions = <<>> THEN <<>>
    ELSE SessionGroup(Head(sessions)[1], Head(sessions)[2][1])
         \o RemainingSessions(Tail(sessions))

SessEnd(st) == [st EXCEPT !.pc = "done", !.emitted = @ \o RemainingSessions(st.sessions)]

RECURSIVE SessFold(_, _)
SessFold(st, entries) ==
    IF entries = <<>> THEN SessEnd(st) ELSE SessFold(SessBody(st, Head(entries)), Tail(entries))

SessCorrelate(st, entries, buffer_size) == SessFold(SessEnter(st, buffer_size), entries)

\* The records fed to SessionCorrelation: no session key, or session s or user u,
\* without a timestamp or at second 0, 30 or 90.
SessEntries ==
    {LogEntry(<<0, 0>>, 0)}
    \cup {[LogEntry(<<0, 0>>, t) EXCEPT !.correlation.session_id = "s"] : t \in {NoTs, 0, 30, 90}}
    \cup {[LogEntry(<<0, 0>>, t) EXCEPT !.correlation.user_id = "u"] : t \in {NoTs, 0, 30, 90}}

\* ------------------------------------------------------------- CorrelateLogsUseCase.execute
DefaultWindowSize == 10000
DefaultWindowSeconds == 1

StrategyNames == {"request_id", "timestamp_window", "session"}

\* list(strategy.correlate(iter(entries), window_size)) for a freshly built strategy
Correlate(name, entries, window_size) ==
    CASE name = "request_id" ->
            RidCorrelate(RidNew(MAX_ORPHAN_ENTRIES), entries, window_size).emitted
      [] name = "timestamp_window" ->
            WinCorrelate(WinNew(DefaultWindowSeconds, TRUE), entries, window_size).emitted
      [] name = "session" ->
            SessCorrelate(SessNew(DefaultSessionTimeoutMinutes, MAX_SESSION_GROUPS),
                          entries, window_size).emitted

\* {id(e) for g in groups for e in g.entries}
CorrelatedIds(groups) ==
    UNION {{groups[n].entries[m].uid : m \in 1..Len(groups[n].entries)} :
              n \in 1..Len(groups)}

\* [e for e in remaining_entries if id(e) not in correlated_ids]
RECURSIVE Without(_, _)
Without(entries, ids) ==
    IF entries = <<>> THEN <<>>
    ELSE (IF Head(entries).uid \in ids THEN <<>> ELSE <<Head(entries)>>)
         \o Without(Tail(entries), ids)

KeepCorrelated(remaining, groups) == remaining
RemoveCorrelated(remaining, groups) == Without(remaining, CorrelatedIds(groups))

\* CorrelateLogsUseCase.__init__ and the locals of execute(). self.strategies is
\* any list of the three strategies, each at most once; the list is drawn element
\* by element as the for loop reads it, and applied records, per strategy run, the
\* strategy, the records it was handed and the groups it emitted.
ExecNew(window_size) ==
    [pc |-> "idle", window_size |-> window_size,
     all_entries |-> <<>>, remaining_entries |-> <<>>, all_groups |-> <<>>,
     applied |-> <<>>, groups |-> <<>>, orphan_entries |-> <<>>]

\* The records of the merged sources in execute(): request a at second 0, user u
\* at second 1, and a record with neither identifier nor timestamp.
ExecEntries ==
    {[LogEntry(<<0, 0>>, 0) EXCEPT !.correlation.request_id = "a"],
     [LogEntry(<<0, 0>>, 1) EXCEPT !.correlation.user_id = "u"],
     LogEntry(<<0, 0>>, NoTs)}

\* ------------------------------------------------------------- lines of text
\* A line of text is [fill, text]: fill copies of the letter x followed by the
\* characters of text. A raw line, as iterating a text stream gives it, ends
\* with its line terminator.
MAX_LINE_LENGTH == 10 * 1024 * 1024

Line(fill, text) == [fill |-> fill, text |-> text]

\* str.rstrip("\n\r") on a sequence of characters
RECURSIVE RStripChars(_)
RStripChars(t) ==
    IF t # <<>> /\ t[Len(t)] \in {"\n", "\r"}
    THEN RStripChars(SubSeq(t, 1, Len(t) - 1))
    ELSE t

\* line.rstrip("\n\r")
RStrip(line) == [line EXCEPT !.text = RStripChars(@)]

\* len(line.encode("utf-8", errors="replace")) of an ASCII line
ByteLength(line) == line.fill + Len(line.text)

StripAll(lines) == [i \in 1..Len(lines) |-> RStrip(lines[i])]

Min(a, b) == IF a < b THEN a ELSE b

\* The raw lines a stream delivers: a\n, b\r\n, the empty line \n, and a line
\* of MAX_LINE_LENGTH + 1 characters before its terminator.
RawLines ==
    {Line(0, <<"a", "\n">>), Line(0, <<"b", "\r", "\n">>), Line(0, <<"\n">>),
     Line(MAX_LINE_LENGTH, <<"a", "\n">>)}

\* ------------------------------------------------------------- BufferedStdinSource
\* BufferedStdinSource(peek_lines) reading a sys.stdin that delivers the raw
\* lines of content; pos counts the lines taken from sys.stdin so far. gen is
\* the position of the one read_lines() generator: "new" (not advanced yet),
\* "buffer" (in the loop over self._buffer, idx lines yielded from it),
\* "stdin" (in the loop over sys.stdin), "done". peeks_at records, per peek()
\* call, how many lines the generator had yielded when the call was made.
BsNew(peek_lines, content) ==
    [peek_lines |-> peek_lines, buffer |-> <<>>, peeked |-> FALSE,
     exhausted |-> FALSE, line_count |-> 0,
     stdin |-> content, pos |-> 0,
     gen |-> "new", idx |-> 0, yielded |-> <<>>,
     peek_calls |-> 0, peek_result |-> <<>>, first_result |-> <<>>,
     peek_read |-> 0, later_read |-> 0, peek_mid_read |-> FALSE, peeks_at |-> <<>>]

\* the for loop of peek(): lines are appended until count >= peek_lines is met
\* after an append, or sys.stdin ends (the else branch: _exhausted = True)
RECURSIVE PeekLoop(_, _)
PeekLoop(st, count) ==
    IF st.pos >= Len(st.stdin) THEN [st EXCEPT !.exhausted = TRUE]
    ELSE LET s1 == [st EXCEPT !.buffer = Append(@, RStrip(st.stdin[st.pos + 1])),
                              !.pos = @ + 1]
         IN IF count + 1 >= st.peek_lines THEN s1 ELSE PeekLoop(s1, count + 1)

\* peek()
BsPeekUnguarded(st) ==
    LET s1 == PeekLoop([st EXCEPT !.peeked = TRUE], 0)
    IN [s1 EXCEPT !.peek_calls = @ + 1, !.peek_result = s1.buffer,
                  !.peeks_at = Append(@, Len(st.yielded))]
BsPeek(st) ==
    LET s1 == IF st.peeked THEN st ELSE PeekLoop([st EXCEPT !.peeked = TRUE], 0)
    IN [s1 EXCEPT !.peek_calls = @ + 1,
                  !.peeks_at = Append(@, Len(st.yielded)),
                  !.peek_result = s1.buffer,
                  !.first_result = IF st.peek_calls = 0 THEN s1.buffer ELSE @,
                  !.peek_read = IF st.peek_calls = 0 THEN s1.pos - st.pos ELSE @,
                  !.later_read = IF st.peek_calls = 0 THEN @ ELSE @ + (s1.pos - st.pos),
                  !.peek_mid_read = @ \/ (~st.peeked /\ st.gen \in {"buffer", "stdin"})]

\* "for line in sys.stdin" of read_lines(): the next line, or the end
BsStdinNext(st) ==
    IF st.pos < Len(st.stdin)
    THEN [st EXCEPT !.gen = "stdin", !.pos = @ + 1, !.line_count = @ + 1,
                    !.yielded = Append(@, RStrip(st.stdin[st.pos + 1]))]
    ELSE [st EXCEPT !.gen = "done"]

\* next() on the read_lines() generator
BsNextStdinOnly(st) == BsStdinNext(st)
BsNext(st) ==
    IF st.gen \in {"new", "buffer"}
    THEN IF st.idx < Len(st.buffer)
         THEN [st EXCEPT !.gen = "buffer", !.idx = @ + 1, !.line_count = @ + 1,
                         !.yielded = Append(@, st.buffer[st.idx + 1])]
         ELSE IF ~st.exhausted THEN BsStdinNext(st) ELSE [st EXCEPT !.gen = "done"]
    ELSE BsStdinNext(st)

\* ------------------------------------------------------------- ChunkedFileStreamSource
\* self._file_size: the bytes of the file
RECURSIVE FileSize(_)
FileSize(lines) ==
    IF lines = <<>> THEN 0 ELSE ByteLength(Head(lines)) + FileSize(Tail(lines))

\* ChunkedFileStreamSource(path, progress_callback, callback_interval) on a file
\* of the given raw lines. gen is the position of the read_lines() generator:
\* "new", "yielded" (suspended at the yield), "done", or "error" (it raised
\* ZeroDivisionError). calls lists the arguments of the callback's calls.
ChNew(has_callback, callback_interval, content) ==
    [has_callback |-> has_callback, callback_interval |-> callback_interval,
     file |-> content, file_size |-> FileSize(content), pos |-> 0,
     bytes_read |-> 0, lines_read |-> 0, gen |-> "new", yielded |-> <<>>,
     calls |-> <<>>]

\* self.progress_callback(bytes_read, self._file_size, lines_read)
ChCallback(st) ==
    [st EXCEPT !.calls = Append(@, [bytes_read |-> st.bytes_read,
                                    total_bytes |-> st.file_size,
                                    lines_read |-> st.lines_read])]

\* after the yield: if self.progress_callback and
\* lines_read % self.callback_interval == 0: the callback is called
ChProgressEveryLine(st) == IF st.has_callback THEN ChCallback(st) ELSE st
ChProgress(st) ==
    IF ~st.has_callback THEN st
    ELSE IF st.callback_interval = 0 THEN [st EXCEPT !.gen = "error"]
    ELSE IF st.lines_read % st.callback_interval = 0 THEN ChCallback(st)
    ELSE st

\* "for line in f": the next line is counted and yielded, or the loop ends and
\* the final callback is made
ChRead(st) ==
    IF st.pos < Len(st.file)
    THEN [st EXCEPT !.pos = @ + 1,
                    !.bytes_read = @ + ByteLength(st.file[st.pos + 1]),
                    !.lines_read = @ + 1,
                    !.yielded = Append(@, RStrip(st.file[st.pos + 1])),
                    !.gen = "yielded"]
    ELSE LET s1 == [st EXCEPT !.gen = "done"]
         IN IF st.has_callback THEN ChCallback(s1) ELSE s1

\* next() on the read_lines() generator
ChNext(st) ==
    LET s1 == IF st.gen = "yielded" THEN ChProgress(st) ELSE st
    IN IF s1.gen = "error" THEN s1 ELSE ChRead(s1)

\* ------------------------------------------------------------- FormatDetector
\* A signature is [name, weight, is_json] with the weight in tenths (15 is 1.5);
\* its patterns are represented by what they match: a sample line is
\* [blank, json, magic, line], where json says that the line is a JSON object
\* and magic / line are the names of the signatures one of whose magic / line
\* patterns matches it.
Signature(name, weight, is_json) == [name |-> name, weight |-> weight, is_json |-> is_json]

SignaturePool ==
    {Signature("json_structured", 15, TRUE), Signature("apache_combined", 13, FALSE),
     Signature("generic", 5, FALSE)}

SampleLine(blank, json, magic, line) ==
    [blank |-> blank, json |-> json, magic |-> magic, line |-> line]

SampleLines ==
    {SampleLine(TRUE, FALSE, {}, {}),
     SampleLine(FALSE, TRUE, {"json_structured"}, {}),
     SampleLine(FALSE, FALSE, {"apache_combined"}, {"apache_combined", "generic"}),
     SampleLine(FALSE, FALSE, {}, {"apache_combined", "generic"}),
     SampleLine(FALSE, FALSE, {}, {"generic"}),
     SampleLine(FALSE, FALSE, {}, {})}

DefaultSampleSize == 50

\* sample = lines[:sample_size], then the lines that are not blank
DetSample(lines, sample_size) ==
    LET n == IF sample_size = 0 THEN DefaultSampleSize ELSE sample_size
    IN SelectSeq(SubSeq(lines, 1, Min(n, Len(lines))), LAMBDA l : ~l.blank)

\* the number of lines of the sample that satisfy P
Matches(sample, P(_)) == Len(SelectSeq(sample, P))

\* _score_signature(sig, sample) as a number of tenths of 1 / len(sample):
\* weight * (2 * json_score (when is_json) + 3 * magic_ratio + line_ratio),
\* and 0 for a JSON signature when json_score <= 0.5
ScoreSignature(sig, sample) ==
    LET json_count == Matches(sample, LAMBDA l : l.json)
        magic_matches == Matches(sample, LAMBDA l : sig.name \in l.magic)
        line_matches == Matches(sample, LAMBDA l : sig.name \in l.line)
    IN IF sig.is_json /\ ~(2 * json_count > Len(sample)) THEN 0
       ELSE sig.weight * ((IF sig.is_json THEN 2 * json_count ELSE 0)
                          + 3 * magic_matches + line_matches)

\* scores: the signatures with score > 0, in the order of self.signatures
DetScores(signatures, sample) ==
    SelectSeq([i \in 1..Len(signatures) |->
                  <<signatures[i].name, ScoreSignature(signatures[i], sample)>>],
              LAMBDA sc : sc[2] > 0)

\* max(scores.items(), key=lambda x: x[1]): the first item with the highest score
BestFormat(scores) ==
    LET i == CHOOSE i \in 1..Len(scores) :
                /\ \A j \in 1..Len(scores) : scores[j][2] <= scores[i][2]
                /\ \A j \in 1..(i - 1) : scores[j][2] < scores[i][2]
    IN scores[i]

\* min(1.0, best_format[1] / max(max_score, 1.0)) as a fraction <<num, den>>;
\* one is 10 * len(sample) in the unit of the scores
ConfidenceRelative(best, one) == <<1, 1>>
Confidence(best, one) == IF best >= one THEN <<1, 1>> ELSE <<best, one>>

\* detect(lines, sample_size)
Detect(signatures, lines, sample_size) ==
    LET sample == DetSample(lines, sample_size)
        scores == DetScores(signatures, sample)
    IN IF sample = <<>> THEN [format |-> "unknown", confidence |-> <<0, 1>>, scores |-> <<>>]
       ELSE IF scores = <<>>
       THEN [format |-> "generic", confidence |-> <<3, 10>>, scores |-> scores]
       ELSE [format |-> BestFormat(scores)[1],
             confidence |-> Confidence(BestFormat(scores)[2], 10 * Len(sample)),
             scores |-> scores]

DetNew(signatures, lines, sample_size) ==
    [pc |-> "idle", signatures |-> signatures, lines |-> lines,
     sample_size |-> sample_size,
     result |-> [format |-> None, confidence |-> <<0, 1>>, scores |-> <<>>]]

\* ------------------------------------------------------------- parsers
\* A line handed to a parser is [id, json, depth, clf]: json says what
\* json.loads(line.strip()) does ("invalid": JSONDecodeError, "recursion":
\* RecursionError, on nesting beyond the interpreter's recursion limit, "scalar":
\* a value that is not a dict, "object": a dict), depth is the deepest level
\* validate_json_depth reaches in it, clf says whether the Common Log Format
\* pattern matches. Confidences are in hundredths; raised says that the call
\* raised instead of returning.
MAX_JSON_DEPTH == 50

ParseLines ==
    {[id |-> "plain", json |-> "invalid", depth |-> 0, clf |-> FALSE],
     [id |-> "clf", json |-> "invalid", depth |-> 0, clf |-> TRUE],
     [id |-> "number", json |-> "scalar", depth |-> 0, clf |-> FALSE],
     [id |-> "object", json |-> "object", depth |-> 1, clf |-> FALSE],
     [id |-> "nested", json |-> "object", depth |-> MAX_JSON_DEPTH + 1, clf |-> FALSE],
     [id |-> "abyss", json |-> "recursion", depth |-> 0, clf |-> FALSE]}

ParserNames == {"json", "apache_common"}

\* LogEntry(raw=line) with entry.parser_name = self.name
ParsedEntry(name, line) ==
    [raw |-> line, parser_name |-> name, parse_errors |-> <<>>,
     parser_confidence |-> 0, format_detected |-> "unknown", raised |-> FALSE]

\* JSONParser.parse_line(line)
JsonParseLine(line) ==
    LET entry == ParsedEntry("json", line)
    IN IF line.json = "invalid"
       THEN [entry EXCEPT !.parse_errors = <<"JSON decode error">>,
                          !.parser_confidence = 0]
       ELSE IF line.json = "recursion" THEN [entry EXCEPT !.raised = TRUE]
       ELSE IF line.json # "object"
       THEN [entry EXCEPT !.parse_errors = <<"JSON is not an object">>,
                          !.parser_confidence = 30]
       ELSE IF line.depth > MAX_JSON_DEPTH
       THEN [entry EXCEPT !.parse_errors = <<"JSON security validation failed">>,
                          !.parser_confidence = 10]
       ELSE [entry EXCEPT !.format_detected = "json_structured",
                          !.parser_confidence = 100]

\* ApacheCommonParser.parse_line(line)
ApacheParseLine(line) ==
    LET entry == ParsedEntry("apache_common", line)
    IN IF ~line.clf
       THEN [entry EXCEPT
                !.parse_errors = <<"Line does not match Apache Common format">>,
                !.parser_confidence = 0]
       ELSE [entry EXCEPT !.format_detected = "apache_common",
                          !.parser_confidence = 95]

\* P.parse_line(line)
ParseLine(name, line) ==
    IF name = "json" THEN JsonParseLine(line) ELSE ApacheParseLine(line)

ParseNew(name) == [parser |-> name, lines |-> <<>>, entries |-> <<>>]

\* ------------------------------------------------------------- NormalizationPipeline
\* the attributes of a domain LogEntry
LogEntryAttributes ==
    {"id", "raw", "timestamp", "timestamp_precision", "level", "format_detected",
     "message", "structured_data", "source", "network", "http", "correlation",
     "parser_name", "parser_confidence", "parse_errors", "extra"}

\* The records fed to process(): [id, poison, normalized, normalization_error],
\* where poison says that a step of the pipeline raises on the record.
PipeEntries ==
    {[id |-> i, poison |-> b, normalized |-> FALSE, normalization_error |-> None] :
        i \in {"e1", "e2"}, b \in BOOLEAN}

\* NormalizationPipeline(steps, stop_on_error) and process(entries): gen is the
\* position of the generator, "run", "done", or "raised" with the exception
\* that left it in raised.
PipeNew(stop_on_error, entries) ==
    [stop_on_error |-> stop_on_error, entries |-> entries, pos |-> 0,
     gen |-> "run", raised |-> None, yielded |-> <<>>,
     error_count |-> 0, processed_count |-> 0]

\* the except branch of process(): the error is counted, then re-raised or
\* written to entry.metadata["normalization_error"] before the entry is yielded
PipeOnError(st, entry) ==
    LET s1 == [st EXCEPT !.error_count = @ + 1]
    IN IF st.stop_on_error THEN [s1 EXCEPT !.gen = "raised", !.raised = "StepError"]
       ELSE IF "metadata" \notin LogEntryAttributes
       THEN [s1 EXCEPT !.gen = "raised", !.raised = "AttributeError"]
       ELSE [s1 EXCEPT !.yielded =
                Append(@, [entry EXCEPT !.normalization_error = "StepError"])]

\* next() on the process() generator
PipeNext(st) ==
    IF st.pos >= Len(st.entries) THEN [st EXCEPT !.gen = "done"]
    ELSE LET entry == st.entries[st.pos + 1]
             s1 == [st EXCEPT !.pos = @ + 1]
         IN IF entry.poison THEN PipeOnError(s1, entry)
            ELSE [s1 EXCEPT !.processed_count = @ + 1,
                            !.yielded = Append(@, [entry EXCEPT !.normalized = TRUE])]

\* ------------------------------------------------------------- parsing entry points
\* supported_formats of the parser classes: the parser a format name is bound
\* to by register(), None for a name no class supports
FormatToParser(fmt) ==
    CASE fmt \in {"json_structured", "json_lines", "ndjson", "json"} -> "json"
      [] fmt \in {"apache_common", "clf"} -> "apache_common"
      [] fmt \in {"generic", "unknown", "text"} -> "generic"
      [] OTHER -> None

\* ParserRegistry.get_parser(format_name) on a registry holding the parser
\* classes named in registered
GetParser(registered, fmt) ==
    IF FormatToParser(fmt) # None /\ FormatToParser(fmt) \in registered
    THEN FormatToParser(fmt)
    ELSE IF fmt \in registered THEN fmt
    ELSE None

\* the parser an entry point ends up with for a requested or detected format,
\* [parser, raised]: ParseLogsUseCase.execute and parse_file look up "generic"
\* when the format has no parser, ParseLogsStreamingUseCase.execute (which
\* stream_parse delegates to) raises ValueError
SelectParser(point, registered, fmt) ==
    LET parser == GetParser(registered, fmt)
        generic == GetParser(registered, "generic")
    IN IF parser # None THEN [parser |-> parser, raised |-> None]
       ELSE IF point = "ParseLogsStreamingUseCase.execute"
       THEN [parser |-> None, raised |-> "ValueError"]
       ELSE IF point = "ParseLogsUseCase.execute" /\ generic = None
       THEN [parser |-> None, raised |-> "ValueError"]
       ELSE [parser |-> generic, raised |-> None]

\* the lines that are not blank: "if stripped" / "if line.strip()"
NonBlank(lines) == SelectSeq(lines, LAMBDA l : l # "blank")

\* the whole call, consumed to exhaustion: the parser of each record returned,
\* or the exception raised (parse_file calls parse_line on None when not even
\* generic is registered and the file has a line that is not blank)
RunEntryPoint(point, registered, fmt, lines) ==
    LET sel == SelectParser(point, registered, fmt)
    IN IF sel.raised # None THEN [parsers |-> <<>>, raised |-> sel.raised]
       ELSE IF sel.parser = None /\ NonBlank(lines) # <<>>
       THEN [parsers |-> <<>>, raised |-> "AttributeError"]
       ELSE [parsers |-> [i \in 1..Len(NonBlank(lines)) |-> sel.parser],
             raised |-> None]

EntryPoints ==
    {"ParseLogsUseCase.execute", "ParseLogsStreamingUseCase.execute", "parse_file"}

EntryNew(point, registered, fmt, lines) ==
    [point |-> point, registered |-> registered, format |-> fmt, lines |-> lines,
     pc |-> "idle", parsers |-> <<>>, raised |-> None]

\* ------------------------------------------------------------- render_csv
\* Cell values are sequences of characters.
CSV_FORMULA_PREFIXES == {"=", "+", "-", "@", "\t", "\r"}

\* sanitize_csv_cell(value)
SanitizeCsvCell(value) ==
    IF value # <<>> /\ value[1] \in CSV_FORMULA_PREFIXES THEN <<"'">> \o value ELSE value

\* the field csv.DictWriter writes for a value (QUOTE_MINIMAL): quoted when it
\* holds the delimiter, the quote character or a line terminator character,
\* quote characters doubled
RECURSIVE DoubleQuotes(_)
DoubleQuotes(v) ==
    IF v = <<>> THEN <<>>
    ELSE (IF Head(v) = "\"" THEN <<"\"", "\"">> ELSE <<Head(v)>>) \o DoubleQuotes(Tail(v))

CsvField(value) ==
    IF \E i \in 1..Len(value) : value[i] \in {",", "\"", "\r", "\n"}
    THEN <<"\"">> \o DoubleQuotes(value) \o <<"\"">>
    ELSE value

\* row of render_csv for one record: timestamp, level, message, source_file,
\* line_number, service, format
CsvRow(e) ==
    <<<<>>, <<"I", "N", "F", "O">>, e.message, <<>>, <<>>, e.service, <<"j", "s", "o", "n">>>>

\* writer.writerow(row): the fields written for the record
CsvWriteRow(e) == [c \in 1..7 |-> CsvField(CsvRow(e)[c])]

\* The records rendered: a message and a service name.
CsvEntries ==
    {[message |-> m, service |-> v] :
        m \in {<<"x">>, <<"=", "x">>, <<"-", "x">>, <<"\r", "x">>, <<"x", "=">>},
        v \in {<<>>, <<"@", "s">>}}

CsvNew(entries) == [entries |-> entries, written |-> <<>>]

\* ------------------------------------------------------------- HostnameEnricher
DefaultCacheSize == 1000

\* An address is the sequence of the numbers between its dots.
HostIps == {<<10, 0, 0, n>> : n \in 1..5} \cup {<<10, 0, 0, 256>>}

\* HostnameEnricher._is_valid_ip of a dotted address
IsValidIp(ip) == Len(ip) = 4 /\ \A n \in 1..Len(ip) : ip[n] >= 0 /\ ip[n] <= 255

\* HostnameEnricher.__init__; last records the latest _resolve() call: its
\* argument, whether it reached the insertion, len(self._cache) before it, the
\* number of keys it deleted and what it returned.
HostNew(cache_size) ==
    [cache_size |-> cache_size, cache |-> <<>>, lookups |-> 0,
     last |-> [ip |-> <<>>, inserted |-> FALSE, before |-> 0, evicted |-> 0,
               result |-> None]]

\* for k in keys[:len(keys)//2]: del self._cache[k]
EvictHalf(cache) == SubSeq(cache, Len(cache) \div 2 + 1, Len(cache))

\* if len(self._cache) >= self.cache_size
CacheFull(st) == Len(st.cache) >= st.cache_size

\* HostnameEnricher._resolve(ip), socket.gethostbyaddr giving hostname (None when
\* it raises one of the errors caught)
Resolve(st, ip, hostname) ==
    LET s0 == [st EXCEPT !.lookups = @ + 1]
        kept == IF CacheFull(st) THEN EvictHalf(st.cache) ELSE st.cache
    IN IF DictHas(st.cache, ip)
       THEN [s0 EXCEPT !.last = [ip |-> ip, inserted |-> FALSE, before |-> Len(st.cache),
                                 evicted |-> 0, result |-> DictGet(st.cache, ip)]]
       ELSE IF ~IsValidIp(ip)
       THEN [s0 EXCEPT !.last = [ip |-> ip, inserted |-> FALSE, before |-> Len(st.cache),
                                 evicted |-> 0, result |-> None]]
       ELSE [s0 EXCEPT !.cache = DictSet(kept, ip, hostname),
                       !.last = [ip |-> ip, inserted |-> TRUE, before |-> Len(st.cache),
                                 evicted |-> Len(st.cache) - Len(kept),
                                 result |-> hostname]]

\* ------------------------------------------------------------- ParseLogsUseCase
\* A line the source yields is the sequence of its characters.
Whitespace == {" ", "\t", "\n", "\r"}

\* str.strip() on a sequence of characters
RECURSIVE Strip(_)
Strip(t) ==
    IF t # <<>> /\ t[1] \in Whitespace THEN Strip(Tail(t))
    ELSE IF t # <<>> /\ t[Len(t)] \in Whitespace THEN Strip(SubSeq(t, 1, Len(t) - 1))
    ELSE t

\* The lines of a source: a, b with a blank before it, the empty line, a line
\* of one blank.
UcLines == {<<"a">>, <<" ", "b">>, <<>>, <<" ">>}

\* ParseLogsUseCase(source, ...) and the frame of execute(sample_size=...):
\* taken counts the lines that lines_iter has given, part and idx are the
\* position of the all_lines() generator, yielded the records execute() has
\* yielded. The registry holds a parser for the format or the generic one.
UcNew(sample_size, content) ==
    [source |-> content, sample_size |-> sample_size, pc |-> "buffer", taken |-> 0,
     i |-> 0, sample |-> <<>>, remaining_lines |-> <<>>, part |-> "sample", idx |-> 0,
     line_number |-> 0, yielded |-> <<>>]

\* one iteration of "for i, line in enumerate(lines_iter)", or its end
UcBuffer(st) ==
    IF st.taken >= Len(st.source) THEN [st EXCEPT !.pc = "parse"]
    ELSE LET line == st.source[st.taken + 1]
             s1 == [st EXCEPT !.taken = @ + 1]
         IN IF st.i < st.sample_size
            THEN [s1 EXCEPT !.sample = Append(@, line), !.i = @ + 1]
            ELSE [s1 EXCEPT !.remaining_lines = Append(@, line), !.pc = "parse"]

\* next() on all_lines(): [line, st, stop], where stop says StopIteration
AllLinesNextSkipRemaining(st) ==
    IF st.part = "sample" /\ st.idx < Len(st.sample)
    THEN [line |-> st.sample[st.idx + 1], st |-> [st EXCEPT !.idx = @ + 1],
          stop |-> FALSE]
    ELSE IF st.taken < Len(st.source)
    THEN [line |-> st.source[st.taken + 1],
          st |-> [st EXCEPT !.part = "lines_iter", !.idx = 0, !.taken = @ + 1],
          stop |-> FALSE]
    ELSE [line |-> <<>>, st |-> [st EXCEPT !.part = "lines_iter", !.idx = 0],
          stop |-> TRUE]
AllLinesNext(st) ==
    LET r == IF st.part = "remaining_lines" THEN st.idx ELSE 0
    IN IF st.part = "sample" /\ st.idx < Len(st.sample)
       THEN [line |-> st.sample[st.idx + 1], st |-> [st EXCEPT !.idx = @ + 1],
             stop |-> FALSE]
       ELSE IF st.part # "lines_iter" /\ r < Len(st.remaining_lines)
       THEN [line |-> st.remaining_lines[r + 1],
             st |-> [st EXCEPT !.part = "remaining_lines", !.idx = r + 1],
             stop |-> FALSE]
       ELSE IF st.taken < Len(st.source)
       THEN [line |-> st.source[st.taken + 1],
             st |-> [st EXCEPT !.part = "lines_iter", !.idx = 0, !.taken = @ + 1],
             stop |-> FALSE]
       ELSE [line |-> <<>>, st |-> [st EXCEPT !.part = "lines_iter", !.idx = 0],
             stop |-> TRUE]

\* parser.parse_line(stripped) with entry.source.line_number = line_number
UcEntry(stripped, line_number) == [raw |-> stripped, line_number |-> line_number]

\* one iteration of "for line in all_lines()", or its end
UcParse(st) ==
    LET nx == AllLinesNext(st)
        s1 == [nx.st EXCEPT !.line_number = @ + 1]
        stripped == Strip(nx.line)
    IN IF nx.stop THEN [nx.st EXCEPT !.pc = "done"]
       ELSE IF stripped # <<>>
       THEN [s1 EXCEPT !.yielded = Append(@, UcEntry(stripped, s1.line_number))]
       ELSE s1

\* ------------------------------------------------------------- LevelNormalizer
\* A level is <<module, name>>: the member name of the LogLevel enum of that
\* module. ulp.core.models and ulp.domain.entities each define a LogLevel, and
\* members of different enums are never equal.
CoreLevel(name) == <<"ulp.core.models", name>>
DomainLevel(name) == <<"ulp.domain.entities", name>>

\* The values a level field holds (none has a blank at either end, so that
\* str.strip() removes nothing from them), and str.lower() on them.
LevelValues == {"warning", "Information", "3", "bogus", ""}
Lower(v) == IF v = "Information" THEN "information" ELSE v

\* ulp.core.models.LogLevel.from_string(level)
FromString(level) ==
    LET v == Lower(level)
    IN CoreLevel(CASE v \in {"trace", "t"} -> "TRACE"
                   [] v \in {"debug", "d", "7"} -> "DEBUG"
                   [] v \in {"info", "i", "6"} -> "INFO"
                   [] v \in {"notice", "n", "5"} -> "NOTICE"
                   [] v \in {"warn", "warning", "w", "4"} -> "WARNING"
                   [] v \in {"error", "err", "e", "3"} -> "ERROR"
                   [] v \in {"critical", "crit", "fatal", "c", "f", "2"} -> "CRITICAL"
                   [] v \in {"alert", "a", "1"} -> "ALERT"
                   [] v \in {"emergency", "emerg", "0"} -> "EMERGENCY"
                   [] OTHER -> "UNKNOWN")

\* LevelNormalizer.LEVEL_ALIASES.get(v): the member name, None for no entry
LEVEL_ALIASES(v) ==
    CASE v \in {"debug", "7"} -> "DEBUG"
      [] v \in {"info", "information", "informational", "notice", "5", "6"} -> "INFO"
      [] v \in {"warn", "warning", "4"} -> "WARNING"
      [] v \in {"error", "err", "3"} -> "ERROR"
      [] v \in {"critical", "crit", "fatal", "emergency", "emerg", "alert", "panic",
                "0", "1", "2"} -> "CRITICAL"
      [] v \in {"trace", "verbose"} -> "TRACE"
      [] OTHER -> None

\* JSONParser.LEVEL_FIELDS and the fields LevelNormalizer.normalize looks at
LEVEL_FIELDS ==
    <<"level", "severity", "loglevel", "log_level", "lvl", "levelname", "priority">>
LevelHintFields == <<"level", "severity", "loglevel", "log_level", "priority">>

\* the record JSONParser.parse_line returns for the object data: its level is
\* from_string of the first of LEVEL_FIELDS in data, UNKNOWN without one
JsonRecord(data) ==
    LET f == FirstField(LEVEL_FIELDS, data, 1)
    IN [level |-> IF f = None THEN CoreLevel("UNKNOWN") ELSE FromString(Str(data[f])),
        structured_data |-> data]

\* ulp.domain.entities.LogEntry(level=..., structured_data=...)
DomainRecord(name, data) == [level |-> DomainLevel(name), structured_data |-> data]

\* LevelNormalizer.normalize(entry); steps.py imports LogLevel from ulp.domain.entities
LevelNormalize(entry) ==
    LET f == FirstField(LevelHintFields, entry.structured_data, 1)
        level_value == IF f = None THEN None ELSE Lower(Str(entry.structured_data[f]))
    IN IF entry.level # DomainLevel("UNKNOWN") THEN entry
       ELSE IF Truthy(level_value) /\ LEVEL_ALIASES(level_value) # None
       THEN [entry EXCEPT !.level = DomainLevel(LEVEL_ALIASES(level_value))]
       ELSE entry

LevelNew(entry) == [pc |-> "idle", entry |-> entry, result |-> entry]

\* ------------------------------------------------------------- LargeFileStreamSource
\* A file is the sequence of its bytes, each an ASCII character.
FileBytes == {"a", "\r", "\n"}

DefaultChunkSize == 8192

\* str.rstrip("\r") on a sequence of characters
RECURSIVE RStripCr(_)
RStripCr(t) ==
    IF t # <<>> /\ t[Len(t)] = "\r" THEN RStripCr(SubSeq(t, 1, Len(t) - 1)) ELSE t

\* f.readline() on a file opened in text mode with the default newline=None:
\* \n, \r and \r\n all end a line and are handed over as \n. [line, rest] for
\* the unread bytes rest and the characters buffer already read of the line.
RECURSIVE ReadLine(_, _)
ReadLine(rest, buffer) ==
    IF rest = <<>> THEN [line |-> buffer, rest |-> <<>>]
    ELSE IF Head(rest) = "\n" THEN [line |-> Append(buffer, "\n"), rest |-> Tail(rest)]
    ELSE IF Head(rest) = "\r"
    THEN [line |-> Append(buffer, "\n"),
          rest |-> IF Len(rest) >= 2 /\ rest[2] = "\n" THEN Tail(Tail(rest)) ELSE Tail(rest)]
    ELSE ReadLine(Tail(rest), Append(buffer, Head(rest)))

\* LargeFileStreamSource(path, chunk_size=...) on a file holding content, and
\* the frames of _read_lines_regular() (rest: the bytes f has not read) and
\* _read_lines_mmap() (position, buffer), each with the lines it has yielded
LfNew(chunk_size, content) ==
    [content |-> content, chunk_size |-> chunk_size,
     regular |-> [rest |-> content, gen |-> "run", yielded |-> <<>>],
     mmap |-> [position |-> 0, buffer |-> <<>>, gen |-> "run", yielded |-> <<>>]]

\* one iteration of "for line in f: yield line.rstrip('\n\r')", or its end
LfRegularNext(r) ==
    IF r.rest = <<>> THEN [r EXCEPT !.gen = "done"]
    ELSE LET rd == ReadLine(r.rest, <<>>)
         IN [r EXCEPT !.rest = rd.rest, !.yielded = Append(@, RStripChars(rd.line))]

\* "for byte in chunk" of _read_lines_mmap over the bytes of the chunk
RECURSIVE LfProcessBytes(_, _)
LfProcessBytes(m, bytes) ==
    IF bytes = <<>> THEN m
    ELSE IF Head(bytes) = "\n"
    THEN LfProcessBytes([m EXCEPT !.yielded = Append(@, RStripCr(m.buffer)),
                                  !.buffer = <<>>], Tail(bytes))
    ELSE LfProcessBytes([m EXCEPT !.buffer = Append(@, Head(bytes))], Tail(bytes))

\* one iteration of "while position < len(mm)", or the code after the loop
LfMmapNext(m, content, chunk_size) ==
    LET chunk_end == Min(m.position + chunk_size, Len(content))
    IN IF m.position < Len(content)
       THEN [LfProcessBytes(m, SubSeq(content, m.position + 1, chunk_end))
                EXCEPT !.position = chunk_end]
       ELSE [m EXCEPT !.gen = "done",
                      !.yielded = IF m.buffer # <<>> THEN Append(@, RStripCr(m.buffer))
                                  ELSE @]

\* ------------------------------------------------------------- idle components
LfIdle == LfNew(DefaultChunkSize, <<>>)
LevelIdle == LevelNew(DomainRecord("UNKNOWN", EmptyDict))
UcIdle == UcNew(DefaultSampleSize, <<>>)
HostIdle == HostNew(DefaultCacheSize)
CsvIdle == CsvNew(<<>>)
EntryIdle == EntryNew("parse_file", {}, "generic", <<>>)
PipeIdle == PipeNew(FALSE, <<>>)
ParseIdle == ParseNew("json")
DetIdle == DetNew(<<>>, <<>>, 0)
DefaultCallbackInterval == 10000
ChIdle == ChNew(FALSE, DefaultCallbackInterval, <<>>)
DefaultPeekLines == 50
BsIdle == BsNew(DefaultPeekLines, <<>>)
IoIdle ==
    /\ bstdin = BsIdle
    /\ chunk = ChIdle
    /\ det = DetIdle
    /\ parsed = ParseIdle
    /\ pipe = PipeIdle
    /\ entrypoint = EntryIdle
    /\ csvout = CsvIdle
    /\ enricher = HostIdle
    /\ usecase = UcIdle
    /\ levelstep = LevelIdle
    /\ largefile = LfIdle
WinIdle == WinNew(DefaultWindowSeconds, TRUE)
SessIdle == SessNew(DefaultSessionTimeoutMinutes, MAX_SESSION_GROUPS)
ExecIdle == ExecNew(DefaultWindowSize)

MergeIdle ==
    /\ sources = <<>>
    /\ cursor = <<>>
    /\ exhausted = {}
    /\ heap = {}
    /\ output = <<>>
    /\ merge_pc = "idle"
    /\ prime_idx = 1

\* ------------------------------------------------------------- merge: actions
InitMerge ==
    /\ \E n \in 0..NumSources :
       \E s \in [1..n -> SeqsUpTo(MergeTimestamps, MaxSourceLen)] :
          sources = [i \in 1..n |->
                       [j \in 1..Len(s[i]) |-> LogEntry(<<i, j>>, s[i][j])]]
    /\ cursor = [i \in 1..Len(sources) |-> 0]
    /\ exhausted = {}
    /\ heap = {}
    /\ output = <<>>
    /\ merge_pc = "prime"
    /\ prime_idx = 1
    /\ rid = RidNew(MAX_ORPHAN_ENTRIES)
    /\ win = WinIdle
    /\ sess = SessIdle
    /\ exec = ExecIdle
    /\ IoIdle

\* for source_id, source in enumerate(sources): try next(source), push
MergePrime ==
    /\ merge_pc = "prime"
    /\ prime_idx <= Len(sources)
    /\ IF HasNext(prime_idx)
       THEN /\ cursor' = [cursor EXCEPT ![prime_idx] = @ + 1]
            /\ IF HeapPushRaises(heap, NextEntry(prime_idx))
               THEN /\ merge_pc' = "raised"
                    /\ UNCHANGED heap
               ELSE /\ heap' = HeapPush(heap, prime_idx, NextEntry(prime_idx))
                    /\ UNCHANGED merge_pc
            /\ UNCHANGED exhausted
       ELSE /\ exhausted' = exhausted \cup {prime_idx}
            /\ UNCHANGED <<heap, cursor, merge_pc>>
    /\ prime_idx' = prime_idx + 1
    /\ UNCHANGED <<sources, output>>
    /\ UNCHANGED <<rid, win, sess, exec, ioVars>>

\* the for loop ends
MergePrimeDone ==
    /\ merge_pc = "prime"
    /\ prime_idx > Len(sources)
    /\ merge_pc' = "loop"
    /\ UNCHANGED <<sources, cursor, exhausted, heap, output, prime_idx>>
    /\ UNCHANGED <<rid, win, sess, exec, ioVars>>

\* while heap: pop, yield, next(source), push
MergePop ==
    /\ merge_pc = "loop"
    /\ LoopCond(heap)
    /\ LET top == HeapTop(heap)
           i == top[2] + 1
           rest == HeapAfterPop(heap, top)
       IN /\ output' = Append(output, top[3])
          /\ IF HasNext(i)
             THEN /\ cursor' = [cursor EXCEPT ![i] = @ + 1]
                  /\ IF HeapPushRaises(rest, NextEntry(i))
                     THEN /\ merge_pc' = "raised"
                          /\ heap' = rest
                     ELSE /\ heap' = HeapPush(rest, i, NextEntry(i))
                          /\ UNCHANGED merge_pc
                  /\ UNCHANGED exhausted
             ELSE /\ heap' = rest
                  /\ exhausted' = exhausted \cup {i}
                  /\ UNCHANGED <<cursor, merge_pc>>
    /\ UNCHANGED <<sources, prime_idx>>
    /\ UNCHANGED <<rid, win, sess, exec, ioVars>>

\* the while loop ends: the heap is empty
MergeDone ==
    /\ merge_pc = "loop"
    /\ ~LoopCond(heap)
    /\ merge_pc' = "done"
    /\ UNCHANGED <<sources, cursor, exhausted, heap, output, prime_idx>>
    /\ UNCHANGED <<rid, win, sess, exec, ioVars>>

NextMerge == MergePrime \/ MergePrimeDone \/ MergePop \/ MergeDone

Spec == InitMerge /\ [][NextMerge]_vars

\* The same merge over sources whose records mix no timestamp, naive
\* timestamps and aware timestamps.
InitMergeMixed ==
    /\ \E n \in 0..NumSources :
       \E s \in [1..n -> SeqsUpTo(MixedTimestamps, MaxSourceLen)] :
          sources = [i \in 1..n |->
                       [j \in 1..Len(s[i]) |->
                           [LogEntry(<<i, j>>, s[i][j][1]) EXCEPT !.tz_aware = s[i][j][2]]]]
    /\ cursor = [i \in 1..Len(sources) |-> 0]
    /\ exhausted = {}
    /\ heap = {}
    /\ output = <<>>
    /\ merge_pc = "prime"
    /\ prime_idx = 1
    /\ rid = RidNew(MAX_ORPHAN_ENTRIES)
    /\ win = WinIdle
    /\ sess = SessIdle
    /\ exec = ExecIdle
    /\ IoIdle

SpecMixed == InitMergeMixed /\ [][NextMerge]_vars

\* ------------------------------------------------------------- RequestIdCorrelation: actions
InitRid ==
    /\ MergeIdle
    /\ \E m \in 0..MaxOrphans : rid = RidNew(m)
    /\ win = WinIdle
    /\ sess = SessIdle
    /\ exec = ExecIdle
    /\ IoIdle

\* strategy.correlate(entries, buffer_size) is called on the instance
RidCall ==
    /\ rid.pc \in {"idle", "done"}
    /\ \E b \in (0..MaxBufferSize) \cup {DefaultBufferSize} : rid' = RidEnter(rid, b)
    /\ UNCHANGED <<mergeVars, win, sess, exec, ioVars>>

\* the for loop takes the next record of the input
RidEntry ==
    /\ rid.pc = "run"
    /\ Len(rid.seen) < MaxEntries
    /\ \E e \in RidEntries :
          rid' = RidBody(rid, [e EXCEPT !.uid = <<1, Len(rid.seen) + 1>>])
    /\ UNCHANGED <<mergeVars, win, sess, exec, ioVars>>

\* the input ends
RidExhausted ==
    /\ rid.pc = "run"
    /\ rid' = RidEnd(rid)
    /\ UNCHANGED <<mergeVars, win, sess, exec, ioVars>>

NextRid == RidCall \/ RidEntry \/ RidExhausted

SpecRid == InitRid /\ [][NextRid]_vars

\* ------------------------------------------------------------- TimestampWindowCorrelation: actions
InitWin ==
    /\ MergeIdle
    /\ rid = RidNew(MAX_ORPHAN_ENTRIES)
    /\ \E w \in 0..MaxWindow, r \in BOOLEAN : win = WinNew(w, r)
    /\ sess = SessIdle
    /\ exec = ExecIdle
    /\ IoIdle

WinCall ==
    /\ win.pc = "idle"
    /\ \E b \in (0..MaxBufferSize) \cup {DefaultWindowSize} : win' = WinEnter(win, b)
    /\ UNCHANGED <<mergeVars, rid, sess, exec, ioVars>>

WinEntry ==
    /\ win.pc = "run"
    /\ Len(win.seen) < MaxEntries
    /\ \E e \in WinEntries :
          win' = WinBody(win, [e EXCEPT !.uid = <<1, Len(win.seen) + 1>>])
    /\ UNCHANGED <<mergeVars, rid, sess, exec, ioVars>>

WinExhausted ==
    /\ win.pc = "run"
    /\ win' = WinEnd(win)
    /\ UNCHANGED <<mergeVars, rid, sess, exec, ioVars>>

NextWin == WinCall \/ WinEntry \/ WinExhausted

SpecWin == InitWin /\ [][NextWin]_vars

\* ------------------------------------------------------------- SessionCorrelation: actions
InitSess ==
    /\ MergeIdle
    /\ rid = RidNew(MAX_ORPHAN_ENTRIES)
    /\ win = WinIdle
    /\ \E t \in 0..MaxTimeout, m \in 0..MaxSessions : sess = SessNew(t, m)
    /\ exec = ExecIdle
    /\ IoIdle

\* strategy.correlate(entries, buffer_size) is called on the instance
SessCall ==
    /\ sess.pc \in {"idle", "done"}
    /\ \E b \in 0..MaxBufferSize : sess' = SessEnter(sess, b)
    /\ UNCHANGED <<mergeVars, rid, win, exec, ioVars>>

SessEntry ==
    /\ sess.pc = "run"
    /\ Len(sess.seen) < MaxEntries
    /\ \E e \in SessEntries :
          sess' = SessBody(sess, [e EXCEPT !.uid = <<1, Len(sess.seen) + 1>>])
    /\ UNCHANGED <<mergeVars, rid, win, exec, ioVars>>

SessExhausted ==
    /\ sess.pc = "run"
    /\ sess' = SessEnd(sess)
    /\ UNCHANGED <<mergeVars, rid, win, exec, ioVars>>

NextSess == SessCall \/ SessEntry \/ SessExhausted

SpecSess == InitSess /\ [][NextSess]_vars

\* ------------------------------------------------------------- CorrelateLogsUseCase.execute: actions
\* A use case about to be run on sources that hold at most MaxExecRecords records
\* between them (the records f, cut into the sources at c); a record carries its
\* source's file path.
InitExec ==
    /\ \E n \in 0..NumSources :
       \E f \in SeqsUpTo(ExecEntries, MaxExecRecords) :
       \E c \in [0..n -> 0..Len(f)] :
          /\ c[0] = 0
          /\ c[n] = Len(f)
          /\ \A i \in 1..n : c[i - 1] <= c[i]
          /\ sources = [i \in 1..n |->
                          [j \in 1..(c[i] - c[i - 1]) |->
                              [f[c[i - 1] + j] EXCEPT !.uid = <<i, j>>,
                                                      !.file_path = ToString(i)]]]
    /\ cursor = [i \in 1..Len(sources) |-> 0]
    /\ exhausted = {}
    /\ heap = {}
    /\ output = <<>>
    /\ merge_pc = "idle"
    /\ prime_idx = 1
    /\ rid = RidNew(MAX_ORPHAN_ENTRIES)
    /\ win = WinIdle
    /\ sess = SessIdle
    /\ \E w \in {MaxBufferSize, DefaultWindowSize} : exec = ExecNew(w)
    /\ IoIdle

\* execute(sources): no sources, or merged = self._merge_sources(sources)
ExecCall ==
    /\ exec.pc = "idle"
    /\ merge_pc = "idle"
    /\ IF sources = <<>>
       THEN /\ exec' = [exec EXCEPT !.pc = "done"]
            /\ UNCHANGED merge_pc
       ELSE /\ exec' = [exec EXCEPT !.pc = "merging"]
            /\ merge_pc' = "prime"
    /\ UNCHANGED <<sources, cursor, exhausted, heap, output, prime_idx, rid, win, sess, ioVars>>

\* all_entries = list(merged)
ExecCollect ==
    /\ exec.pc = "merging"
    /\ merge_pc = "done"
    /\ exec' = [exec EXCEPT !.pc = "strategies", !.all_entries = output,
                            !.remaining_entries = output]
    /\ UNCHANGED <<mergeVars, rid, win, sess, ioVars>>

\* one iteration of "for strategy in self.strategies"
ExecStrategy ==
    /\ exec.pc = "strategies"
    /\ exec.remaining_entries # <<>>
    /\ \E name \in StrategyNames :
          /\ \A p \in 1..Len(exec.applied) : exec.applied[p].name # name
          /\ LET groups == Correlate(name, exec.remaining_entries, exec.window_size)
             IN exec' = [exec EXCEPT
                           !.all_groups = @ \o groups,
                           !.applied = Append(@, [name |-> name,
                                                  input |-> exec.remaining_entries,
                                                  groups |-> groups]),
                           !.remaining_entries = RemoveCorrelated(@, groups)]
    /\ UNCHANGED <<mergeVars, rid, win, sess, ioVars>>

\* the list ends or "if not remaining_entries: break": return
\* CorrelationResult(groups=all_groups, orphan_entries=remaining_entries)
ExecReturn ==
    /\ exec.pc = "strategies"
    /\ exec' = [exec EXCEPT !.pc = "done", !.groups = exec.all_groups,
                            !.orphan_entries = exec.remaining_entries]
    /\ UNCHANGED <<mergeVars, rid, win, sess, ioVars>>

NextExec == ExecCall \/ NextMerge \/ ExecCollect \/ ExecStrategy \/ ExecReturn

SpecExec == InitExec /\ [][NextExec]_vars

\* ------------------------------------------------------------- BufferedStdinSource: actions
CorrIdle ==
    /\ MergeIdle
    /\ rid = RidNew(MAX_ORPHAN_ENTRIES)
    /\ win = WinIdle
    /\ sess = SessIdle
    /\ exec = ExecIdle

InitBs ==
    /\ CorrIdle
    /\ \E p \in 0..MaxPeekLines, c \in SeqsUpTo(RawLines, MaxStreamLines) :
          bstdin = BsNew(p, c)
    /\ chunk = ChIdle
    /\ det = DetIdle
    /\ parsed = ParseIdle
    /\ pipe = PipeIdle
    /\ entrypoint = EntryIdle
    /\ csvout = CsvIdle
    /\ enricher = HostIdle
    /\ usecase = UcIdle
    /\ levelstep = LevelIdle
    /\ largefile = LfIdle

\* source.peek() is called
BsPeekCall ==
    /\ bstdin.peek_calls < MaxPeekCalls
    /\ bstdin' = BsPeek(bstdin)
    /\ UNCHANGED <<corrVars, chunk, det, parsed, pipe, entrypoint, csvout, enricher, usecase, levelstep, largefile>>

\* the consumer of source.read_lines() asks for the next line
BsReadNext ==
    /\ bstdin.gen # "done"
    /\ bstdin' = BsNext(bstdin)
    /\ UNCHANGED <<corrVars, chunk, det, parsed, pipe, entrypoint, csvout, enricher, usecase, levelstep, largefile>>

NextBs == BsPeekCall \/ BsReadNext

SpecBs == InitBs /\ [][NextBs]_vars

\* ------------------------------------------------------------- ChunkedFileStreamSource: actions
InitCh ==
    /\ CorrIdle
    /\ bstdin = BsIdle
    /\ \E cb \in BOOLEAN, n \in 0..MaxInterval, c \in SeqsUpTo(RawLines, MaxStreamLines) :
          chunk = ChNew(cb, n, c)
    /\ det = DetIdle
    /\ parsed = ParseIdle
    /\ pipe = PipeIdle
    /\ entrypoint = EntryIdle
    /\ csvout = CsvIdle
    /\ enricher = HostIdle
    /\ usecase = UcIdle
    /\ levelstep = LevelIdle
    /\ largefile = LfIdle

\* the consumer of source.read_lines() asks for the next line
ChReadNext ==
    /\ chunk.gen \in {"new", "yielded"}
    /\ chunk' = ChNext(chunk)
    /\ UNCHANGED <<corrVars, bstdin, det, parsed, pipe, entrypoint, csvout, enricher, usecase, levelstep, largefile>>

NextCh == ChReadNext

SpecCh == InitCh /\ [][NextCh]_vars

\* ------------------------------------------------------------- FormatDetector: actions
\* FormatDetector(signatures) with a non-empty list of distinct signatures, and
\* the arguments of one detect() call
InitDet ==
    /\ CorrIdle
    /\ bstdin = BsIdle
    /\ chunk = ChIdle
    /\ \E sigs \in SeqsUpTo(SignaturePool, MaxSignatures),
          lines \in SeqsUpTo(SampleLines, MaxStreamLines),
          n \in 0..MaxSampleSize :
          /\ sigs # <<>>
          /\ \A i, j \in 1..Len(sigs) : i # j => sigs[i] # sigs[j]
          /\ det = DetNew(sigs, lines, n)
    /\ parsed = ParseIdle
    /\ pipe = PipeIdle
    /\ entrypoint = EntryIdle
    /\ csvout = CsvIdle
    /\ enricher = HostIdle
    /\ usecase = UcIdle
    /\ levelstep = LevelIdle
    /\ largefile = LfIdle

\* detector.detect(lines, sample_size) is called and returns
DetCall ==
    /\ det.pc = "idle"
    /\ det' = [det EXCEPT !.pc = "done",
                          !.result = Detect(det.signatures, det.lines, det.sample_size)]
    /\ UNCHANGED <<corrVars, bstdin, chunk, parsed, pipe, entrypoint, csvout, enricher, usecase, levelstep, largefile>>

NextDet == DetCall

SpecDet == InitDet /\ [][NextDet]_vars

\* ------------------------------------------------------------- parsers: actions
InitParse ==
    /\ CorrIdle
    /\ bstdin = BsIdle
    /\ chunk = ChIdle
    /\ det = DetIdle
    /\ \E name \in ParserNames : parsed = ParseNew(name)
    /\ pipe = PipeIdle
    /\ entrypoint = EntryIdle
    /\ csvout = CsvIdle
    /\ enricher = HostIdle
    /\ usecase = UcIdle
    /\ levelstep = LevelIdle
    /\ largefile = LfIdle

\* parser.parse_line(line) is called with the next line and returns
ParseLineCall ==
    /\ Len(parsed.lines) < MaxStreamLines
    /\ \E line \in ParseLines :
          parsed' = [parsed EXCEPT !.lines = Append(@, line),
                                   !.entries = Append(@, ParseLine(parsed.parser, line))]
    /\ UNCHANGED <<corrVars, bstdin, chunk, det, pipe, entrypoint, csvout, enricher, usecase, levelstep, largefile>>

NextParse == ParseLineCall

SpecParse == InitParse /\ [][NextParse]_vars

\* ------------------------------------------------------------- NormalizationPipeline: actions
InitPipe ==
    /\ CorrIdle
    /\ bstdin = BsIdle
    /\ chunk = ChIdle
    /\ det = DetIdle
    /\ parsed = ParseIdle
    /\ \E b \in BOOLEAN, es \in SeqsUpTo(PipeEntries, MaxStreamLines) :
          pipe = PipeNew(b, es)
    /\ entrypoint = EntryIdle
    /\ csvout = CsvIdle
    /\ enricher = HostIdle
    /\ usecase = UcIdle
    /\ levelstep = LevelIdle
    /\ largefile = LfIdle

\* the consumer of pipeline.process(entries) asks for the next record
PipeProcessNext ==
    /\ pipe.gen = "run"
    /\ pipe' = PipeNext(pipe)
    /\ UNCHANGED <<corrVars, bstdin, chunk, det, parsed, entrypoint, csvout, enricher, usecase, levelstep, largefile>>

NextPipe == PipeProcessNext

SpecPipe == InitPipe /\ [][NextPipe]_vars

\* ------------------------------------------------------------- parsing entry points: actions
InitEntry ==
    /\ CorrIdle
    /\ bstdin = BsIdle
    /\ chunk = ChIdle
    /\ det = DetIdle
    /\ parsed = ParseIdle
    /\ pipe = PipeIdle
    /\ \E point \in EntryPoints, registered \in SUBSET {"json", "apache_common", "generic"},
          fmt \in {"json", "clf", "unknown", "nosuch"},
          lines \in SeqsUpTo({"blank", "text"}, MaxStreamLines) :
          entrypoint = EntryNew(point, registered, fmt, lines)
    /\ csvout = CsvIdle
    /\ enricher = HostIdle
    /\ usecase = UcIdle
    /\ levelstep = LevelIdle
    /\ largefile = LfIdle

\* the entry point is called with the format (requested, or what detection
\* returned) and its result is consumed
EntryCall ==
    /\ entrypoint.pc = "idle"
    /\ LET r == RunEntryPoint(entrypoint.point, entrypoint.registered,
                              entrypoint.format, entrypoint.lines)
       IN entrypoint' = [entrypoint EXCEPT !.pc = "done", !.parsers = r.parsers,
                                           !.raised = r.raised]
    /\ UNCHANGED <<corrVars, bstdin, chunk, det, parsed, pipe, csvout, enricher, usecase, levelstep, largefile>>

NextEntryPoint == EntryCall

SpecEntry == InitEntry /\ [][NextEntryPoint]_vars

\* ------------------------------------------------------------- render_csv: actions
InitCsv ==
    /\ CorrIdle
    /\ bstdin = BsIdle
    /\ chunk = ChIdle
    /\ det = DetIdle
    /\ parsed = ParseIdle
    /\ pipe = PipeIdle
    /\ entrypoint = EntryIdle
    /\ \E es \in SeqsUpTo(CsvEntries, MaxStreamLines) : csvout = CsvNew(es)
    /\ enricher = HostIdle
    /\ usecase = UcIdle
    /\ levelstep = LevelIdle
    /\ largefile = LfIdle

\* "for entry in entries": the row of the next record is written
CsvWriteNext ==
    /\ Len(csvout.written) < Len(csvout.entries)
    /\ csvout' = [csvout EXCEPT !.written =
                     Append(@, CsvWriteRow(csvout.entries[Len(csvout.written) + 1]))]
    /\ UNCHANGED <<corrVars, bstdin, chunk, det, parsed, pipe, entrypoint, enricher, usecase, levelstep, largefile>>

NextCsv == CsvWriteNext

SpecCsv == InitCsv /\ [][NextCsv]_vars

\* ------------------------------------------------------------- HostnameEnricher: actions
InitHost ==
    /\ CorrIdle
    /\ bstdin = BsIdle
    /\ chunk = ChIdle
    /\ det = DetIdle
    /\ parsed = ParseIdle
    /\ pipe = PipeIdle
    /\ entrypoint = EntryIdle
    /\ csvout = CsvIdle
    /\ \E c \in 0..MaxCacheSize : enricher = HostNew(c)
    /\ usecase = UcIdle
    /\ levelstep = LevelIdle
    /\ largefile = LfIdle

\* self._resolve(ip) is called; the lookup gives a name or fails
HostResolve ==
    /\ enricher.lookups < MaxLookups
    /\ \E ip \in HostIps, hostname \in {None, "host"} :
          enricher' = Resolve(enricher, ip, hostname)
    /\ UNCHANGED <<corrVars, bstdin, chunk, det, parsed, pipe, entrypoint, csvout, usecase, levelstep, largefile>>

NextHost == HostResolve

SpecHost == InitHost /\ [][NextHost]_vars

\* ------------------------------------------------------------- ParseLogsUseCase: actions
InitUc ==
    /\ CorrIdle
    /\ bstdin = BsIdle
    /\ chunk = ChIdle
    /\ det = DetIdle
    /\ parsed = ParseIdle
    /\ pipe = PipeIdle
    /\ entrypoint = EntryIdle
    /\ csvout = CsvIdle
    /\ enricher = HostIdle
    /\ \E n \in 0..MaxSampleSize, c \in SeqsUpTo(UcLines, MaxStreamLines) :
          usecase = UcNew(n, c)
    /\ levelstep = LevelIdle
    /\ largefile = LfIdle

\* the sample is buffered, one line of the source at a time
UcBufferNext ==
    /\ usecase.pc = "buffer"
    /\ usecase' = UcBuffer(usecase)
    /\ UNCHANGED <<corrVars, bstdin, chunk, det, parsed, pipe, entrypoint, csvout, enricher, levelstep, largefile>>

\* the parse loop takes the next line
UcParseNext ==
    /\ usecase.pc = "parse"
    /\ usecase' = UcParse(usecase)
    /\ UNCHANGED <<corrVars, bstdin, chunk, det, parsed, pipe, entrypoint, csvout, enricher, levelstep, largefile>>

NextUc == UcBufferNext \/ UcParseNext

SpecUc == InitUc /\ [][NextUc]_vars

\* ------------------------------------------------------------- LevelNormalizer: actions
\* A record about to be normalized: one a parser produced from an object with
\* some of the level fields, or one built on the domain entities.
InitLevel ==
    /\ CorrIdle
    /\ bstdin = BsIdle
    /\ chunk = ChIdle
    /\ det = DetIdle
    /\ parsed = ParseIdle
    /\ pipe = PipeIdle
    /\ entrypoint = EntryIdle
    /\ csvout = CsvIdle
    /\ enricher = HostIdle
    /\ usecase = UcIdle
    /\ \E fields \in SUBSET {"level", "severity", "priority"} :
       \E data \in [fields -> LevelValues] :
          \/ levelstep = LevelNew(JsonRecord(data))
          \/ \E name \in {"UNKNOWN", "ERROR"} : levelstep = LevelNew(DomainRecord(name, data))
    /\ largefile = LfIdle

\* normalizer.normalize(entry) is called
LevelNormalizeCall ==
    /\ levelstep.pc = "idle"
    /\ levelstep' = [levelstep EXCEPT !.pc = "done", !.result = LevelNormalize(levelstep.entry)]
    /\ UNCHANGED <<corrVars, bstdin, chunk, det, parsed, pipe, entrypoint, csvout, enricher, usecase, largefile>>

NextLevel == LevelNormalizeCall

SpecLevel == InitLevel /\ [][NextLevel]_vars

\* ------------------------------------------------------------- LargeFileStreamSource: actions
InitLf ==
    /\ CorrIdle
    /\ bstdin = BsIdle
    /\ chunk = ChIdle
    /\ det = DetIdle
    /\ parsed = ParseIdle
    /\ pipe = PipeIdle
    /\ entrypoint = EntryIdle
    /\ csvout = CsvIdle
    /\ enricher = HostIdle
    /\ usecase = UcIdle
    /\ levelstep = LevelIdle
    /\ \E n \in 1..MaxChunkSize, c \in SeqsUpTo(FileBytes, MaxFileBytes) :
          largefile = LfNew(n, c)

\* the regular path reads its next line
LfReadRegular ==
    /\ largefile.regular.gen = "run"
    /\ largefile' = [largefile EXCEPT !.regular = LfRegularNext(@)]
    /\ UNCHANGED <<corrVars, bstdin, chunk, det, parsed, pipe, entrypoint, csvout, enricher, usecase, levelstep>>

\* the memory-mapped path reads its next chunk
LfReadMmap ==
    /\ largefile.mmap.gen = "run"
    /\ largefile' = [largefile EXCEPT
                        !.mmap = LfMmapNext(@, largefile.content, largefile.chunk_size)]
    /\ UNCHANGED <<corrVars, bstdin, chunk, det, parsed, pipe, entrypoint, csvout, enricher, usecase, levelstep>>

NextLf == LfReadRegular \/ LfReadMmap

SpecLf == InitLf /\ [][NextLf]_vars

\* ------------------------------------------------------------- merge: claims
\* A sequence of records is non-decreasing in the heap's timestamp key.
NonDecreasing(s) == \A p, q \in 1..Len(s) : p < q => TsKey(s[p]) <= TsKey(s[q])

SourcesSorted == \A i \in 1..Len(sources) : NonDecreasing(sources[i])

AllRecords == UNION {Range(sources[i]) : i \in 1..Len(sources)}

\* the records of source i in the order the merge yielded them
RECURSIVE FromSource(_, _)
FromSource(s, i) ==
    IF s = <<>> THEN <<>>
    ELSE IF Head(s).uid[1] = i
         THEN <<Head(s)>> \o FromSource(Tail(s), i)
         ELSE FromSource(Tail(s), i)

AllExhausted == exhausted = 1..Len(sources)

\* C1: when every source is non-decreasing in timestamp (a missing timestamp
\* counting as datetime.min), the merged output is non-decreasing, and of two
\* records with equal timestamps from different sources the one from the source
\* with the lower index is yielded first.
C1_MergeOrdered ==
    SourcesSorted =>
        /\ NonDecreasing(output)
        /\ \A p, q \in 1..Len(output) :
              (p < q /\ TsKey(output[p]) = TsKey(output[q]))
                  => output[p].uid[1] <= output[q].uid[1]

C1_Witness ==
    /\ merge_pc = "done"
    /\ SourcesSorted
    /\ Len(output) >= 3
    /\ \E p, q \in 1..Len(output) :
          /\ p < q
          /\ TsKey(output[p]) = TsKey(output[q])
          /\ output[p].uid[1] < output[q].uid[1]
    /\ \E p, q \in 1..Len(output) :
          /\ p < q
          /\ TsKey(output[p]) < TsKey(output[q])
          /\ output[p].uid[1] > output[q].uid[1]

\* C2: no record is yielded twice, the records yielded from one source are a
\* prefix of that source in its own order, the merge ends only with every source
\* exhausted and then has yielded every record of every source, and while a
\* source still has a record the loop goes on.
C2_MergeComplete ==
    /\ \A p, q \in 1..Len(output) : p < q => output[p].uid # output[q].uid
    /\ \A i \in 1..Len(sources) :
          /\ cursor[i] <= Len(sources[i])
          /\ FromSource(output, i) \in
                {SubSeq(sources[i], 1, cursor[i]),
                 SubSeq(sources[i], 1, cursor[i] - 1)}
    /\ merge_pc = "done" =>
          /\ AllExhausted
          /\ Len(output) = Cardinality(AllRecords)
          /\ \A i \in 1..Len(sources) : FromSource(output, i) = sources[i]
    /\ (merge_pc = "loop" /\ Len(output) < Cardinality(AllRecords)) => LoopCond(heap)
    /\ (merge_pc = "loop" /\ AllExhausted) => heap = {}

C2_Witness ==
    /\ merge_pc = "done"
    /\ Len(sources) = NumSources
    /\ \E i \in 1..Len(sources) : sources[i] = <<>>
    /\ \E i \in 1..Len(sources) : Len(sources[i]) = MaxSourceLen
    /\ Len(output) = MaxSourceLen

C10_HeapBounded ==
    /\ Cardinality(heap) <= Len(sources)
    /\ \A a, b \in heap : a[2] = b[2] => a = b
    /\ \A a \in heap : a[2] + 1 \in 1..Len(sources) /\ a[3].uid[1] = a[2] + 1

C10_Witness ==
    /\ merge_pc = "loop"
    /\ output # <<>>
    /\ Len(sources) = NumSources
    /\ Cardinality(heap) = NumSources

\* ------------------------------------------------------------- RequestIdCorrelation: claims
\* the records of s that carry no identifier
RECURSIVE WithoutId(_)
WithoutId(s) ==
    IF s = <<>> THEN <<>>
    ELSE (IF Truthy(ExtractId(Head(s))) THEN <<>> ELSE <<Head(s)>>) \o WithoutId(Tail(s))

C7_OrphansCappedOneWarning ==
    /\ Len(rid.orphans) <= rid.max_orphans
    /\ Len(WithoutId(rid.seen)) = Len(rid.orphans) + rid.dropped
    /\ rid.warnings <= 1
    /\ rid.dropped > 0 => rid.warnings = 1

\* ------------------------------------------------------------- TimestampWindowCorrelation: claims
\* the records of s that have a timestamp
RECURSIVE Timestamped(_)
Timestamped(s) ==
    IF s = <<>> THEN <<>>
    ELSE (IF Head(s).timestamp # NoTs THEN <<Head(s)>> ELSE <<>>) \o Timestamped(Tail(s))

\* the timestamped records of s are in non-decreasing timestamp order
InTimestampOrder(s) ==
    LET t == Timestamped(s)
    IN \A p, q \in 1..Len(t) : p < q => t[p].timestamp <= t[q].timestamp

GroupSpread(g) == MaxTs(g.entries) - MinTs(g.entries)

\* C4 as stated: whatever the order of the input, the latest and the earliest
\* timestamp of every emitted group differ by at most window_seconds.
C4_SpreadWithinWindow ==
    \A n \in 1..Len(win.emitted) : GroupSpread(win.emitted[n]) <= win.window

\* C4 as amended: when the timestamped records of the input arrive in
\* non-decreasing timestamp order, the latest and the earliest timestamp of every
\* emitted group differ by at most window_seconds.
C4_SpreadWithinWindowOrdered ==
    InTimestampOrder(win.seen) =>
        \A n \in 1..Len(win.emitted) : GroupSpread(win.emitted[n]) <= win.window

C4_Witness ==
    /\ win.pc = "done"
    /\ InTimestampOrder(win.seen)
    /\ win.window > 0
    /\ Len(win.seen) = MaxEntries
    /\ \E n \in 1..Len(win.emitted) :
          /\ GroupSpread(win.emitted[n]) = win.window
          /\ Len(win.emitted[n].entries) < Len(Timestamped(win.seen))

\* ------------------------------------------------------------- SessionCorrelation: claims
Abs(x) == IF x < 0 THEN 0 - x ELSE x

\* C5 as stated: two records next to each other in an emitted group are at most
\* session_timeout apart.
C5_ConsecutiveGapWithinTimeout ==
    \A n \in 1..Len(sess.emitted) :
        LET m == sess.emitted[n].entries
        IN \A p \in 1..(Len(m) - 1) :
              (m[p].timestamp # NoTs /\ m[p + 1].timestamp # NoTs)
                  => Abs(m[p + 1].timestamp - m[p].timestamp) <= sess.session_timeout

\* C5 as amended: of two timestamped records of an emitted group with no
\* timestamped record between them, the later in group order has a timestamp
\* that exceeds the earlier one's by at most session_timeout.
C5_ConsecutiveAdvanceWithinTimeout ==
    \A n \in 1..Len(sess.emitted) :
        LET m == Timestamped(sess.emitted[n].entries)
        IN \A p \in 1..(Len(m) - 1) :
              m[p + 1].timestamp - m[p].timestamp <= sess.session_timeout

C5_Witness ==
    /\ sess.pc = "done"
    /\ sess.session_timeout > 0
    /\ \E n \in 1..Len(sess.emitted) :
          LET m == sess.emitted[n].entries
          IN /\ Len(m) = 3
             /\ m[1].timestamp # NoTs
             /\ m[2].timestamp = NoTs
             /\ m[3].timestamp - m[1].timestamp = sess.session_timeout

\* the records of s whose session key is not a key of sessions
RECURSIVE Untracked(_, _)
Untracked(s, sessions) ==
    IF s = <<>> THEN <<>>
    ELSE (IF ExtractSessionKey(Head(s)) # NoKey
             /\ ~DictHas(sessions, ExtractSessionKey(Head(s)))
          THEN <<Head(s)>> ELSE <<>>) \o Untracked(Tail(s), sessions)

\* C8: at most max_sessions sessions are tracked, the records dropped are those
\* of the session keys that are not tracked, and in a call of correlate() that
\* has dropped records exactly one warning has been emitted.
C8_SessionsCappedOneWarning ==
    /\ Len(sess.sessions) <= sess.max_sessions
    /\ sess.dropped = Len(Untracked(sess.seen, sess.sessions))
    /\ sess.warnings <= 1
    /\ sess.dropped > 0 => sess.warnings = 1

\* ------------------------------------------------------------- CorrelateLogsUseCase.execute: claims
\* how many times the record uid is a member of the groups
RECURSIVE Occurrences(_, _)
Occurrences(s, uid) ==
    IF s = <<>> THEN 0
    ELSE (IF Head(s).uid = uid THEN 1 ELSE 0) + Occurrences(Tail(s), uid)

RECURSIVE GroupOccurrences(_, _)
GroupOccurrences(groups, uid) ==
    IF groups = <<>> THEN 0
    ELSE Occurrences(Head(groups).entries, uid) + GroupOccurrences(Tail(groups), uid)

\* C6: a strategy is handed only records that no group of an earlier strategy
\* holds; and in the result the orphan list is the merged records that are in no
\* returned group, in merged order, every merged record being a member of
\* exactly one returned group or once in the orphan list.
C6_GroupsAndOrphansPartition ==
    /\ \A p, q \in 1..Len(exec.applied) :
          p < q => \A m \in 1..Len(exec.applied[q].input) :
                      exec.applied[q].input[m].uid \notin CorrelatedIds(exec.applied[p].groups)
    /\ exec.pc = "done" =>
          /\ exec.orphan_entries = Without(exec.all_entries, CorrelatedIds(exec.groups))
          /\ \A m \in 1..Len(output) :
                GroupOccurrences(exec.groups, output[m].uid)
                + Occurrences(exec.orphan_entries, output[m].uid) = 1
          /\ \A n \in 1..Len(exec.groups) :
                \A m \in 1..Len(exec.groups[n].entries) :
                    Occurrences(output, exec.groups[n].entries[m].uid) = 1

C6_Witness ==
    /\ exec.pc = "done"
    /\ Len(exec.applied) >= 2
    /\ exec.applied[1].groups # <<>>
    /\ Len(exec.applied[2].input) < Len(exec.all_entries)
    /\ exec.orphan_entries # <<>>

\* ------------------------------------------------------------- BufferedStdinSource: claims
\* C11: once peek() has been called on a source whose read_lines() had not
\* started, the first call has returned the first peek_lines lines of stdin (all
\* of them if stdin has fewer), every later call has returned the same lines,
\* and the later calls have read nothing from stdin.
C11_PeekRetainsFirstP ==
    (bstdin.peek_calls >= 1 /\ ~bstdin.peek_mid_read) =>
        /\ bstdin.first_result =
              StripAll(SubSeq(bstdin.stdin, 1, Min(bstdin.peek_lines, Len(bstdin.stdin))))
        /\ bstdin.peek_result = bstdin.first_result
        /\ bstdin.later_read = 0

\* C12: a read_lines() iteration that ran to exhaustion, peek() having been
\* called before it started or not at all, has yielded every line of stdin,
\* stripped of its line terminator, once and in order.
C12_ReadLinesComplete ==
    (bstdin.gen = "done" /\ ~bstdin.peek_mid_read) =>
        bstdin.yielded = StripAll(bstdin.stdin)

C12_Witness ==
    /\ bstdin.gen = "done"
    /\ ~bstdin.peek_mid_read
    /\ bstdin.peek_calls >= 1
    /\ bstdin.buffer # <<>>
    /\ Len(bstdin.buffer) < Len(bstdin.stdin)
    /\ \E i \in 1..Len(bstdin.stdin) : bstdin.yielded[i] # bstdin.stdin[i]

\* C14: a line longer than the maximum line length is never yielded by
\* read_lines().
C14_NoOversizeLineYielded ==
    \A i \in 1..Len(bstdin.yielded) : ByteLength(bstdin.yielded[i]) <= MAX_LINE_LENGTH

\* ------------------------------------------------------------- ChunkedFileStreamSource: claims
\* C13: when read_lines() of a source with a progress callback and a positive
\* interval N has been consumed to exhaustion over a file of L lines, the
\* callback has been called floor(L/N) + 1 times: the k-th call reported
\* lines_read = k * N, the last one reported lines_read = L, and lines_read
\* never decreased from one call to the next.
C13_ProgressCalls ==
    (chunk.gen = "done" /\ chunk.has_callback /\ chunk.callback_interval > 0) =>
        LET L == Len(chunk.file)
            N == chunk.callback_interval
            c == chunk.calls
        IN /\ Len(c) = (L \div N) + 1
           /\ \A k \in 1..(L \div N) : c[k].lines_read = k * N
           /\ c[Len(c)].lines_read = L
           /\ \A k \in 1..(Len(c) - 1) : c[k].lines_read <= c[k + 1].lines_read

C13_Witness ==
    /\ chunk.gen = "done"
    /\ chunk.has_callback
    /\ chunk.callback_interval > 1
    /\ Len(chunk.file) = MaxStreamLines
    /\ Len(chunk.calls) = 2
    /\ chunk.calls[1].lines_read < chunk.calls[2].lines_read

\* ------------------------------------------------------------- FormatDetector: claims
\* the fraction f is in [0, 1]
InUnitInterval(f) == f[2] > 0 /\ 0 <= f[1] /\ f[1] <= f[2]

C16_ErrorsIffZeroConfidence ==
    \A i \in 1..Len(parsed.entries) :
        LET e == parsed.entries[i]
        IN /\ ~e.raised
           /\ e.raw = parsed.lines[i]
           /\ \/ (e.parse_errors = <<>> /\ e.parser_confidence > 0)
              \/ (e.parse_errors # <<>> /\ e.parser_confidence = 0)

\* ------------------------------------------------------------- NormalizationPipeline: claims
\* C17: with stop_on_error false no exception leaves process(), every record
\* taken from the input has been yielded, and a record on which a step raised
\* carries a normalization_error annotation; with stop_on_error true an
\* exception that has left process() is the step's.
C17_ErrorsAnnotatedNotRaised ==
    /\ ~pipe.stop_on_error =>
          /\ pipe.gen # "raised"
          /\ Len(pipe.yielded) = pipe.pos
          /\ \A i \in 1..Len(pipe.yielded) :
                pipe.entries[i].poison => pipe.yielded[i].normalization_error # None
    /\ (pipe.stop_on_error /\ pipe.gen = "raised") => pipe.raised = "StepError"

\* ------------------------------------------------------------- parsing entry points: claims
\* C18: an entry point called with a format that has no registered parser,
\* while a generic parser is registered, has not failed: every line that is not
\* blank has been parsed by the generic parser.
C18_GenericFallback ==
    (/\ entrypoint.pc = "done"
     /\ GetParser(entrypoint.registered, entrypoint.format) = None
     /\ GetParser(entrypoint.registered, "generic") # None) =>
        /\ entrypoint.raised = None
        /\ entrypoint.parsers = [i \in 1..Len(NonBlank(entrypoint.lines)) |-> "generic"]

\* ------------------------------------------------------------- render_csv: claims
\* C19: every cell render_csv has written is the escaped value: a value that
\* begins with =, +, -, @, tab or carriage return is written with a leading
\* apostrophe, every other value as it is.
C19_CellsEscaped ==
    \A r \in 1..Len(csvout.written) : \A c \in 1..7 :
        LET value == CsvRow(csvout.entries[r])[c]
        IN csvout.written[r][c] = CsvField(SanitizeCsvCell(value))

\* ------------------------------------------------------------- RequestIdCorrelation: buffer
\* the number of records held in the lists of id_groups
RECURSIVE HeldRecords(_)
HeldRecords(groups) ==
    IF groups = <<>> THEN 0 ELSE Len(Head(groups)[2]) + HeldRecords(Tail(groups))

\* C20: while correlate() runs, the identifier groups never hold more than
\* buffer_size records: the groups are emitted and the bookkeeping is emptied
\* as soon as the accumulated records exceed buffer_size.
C20_HeldWithinBufferSize ==
    rid.pc = "run" => HeldRecords(rid.id_groups) <= rid.buffer_size

\* ------------------------------------------------------------- HostnameEnricher: claims
\* C21: whatever cache_size is and whichever addresses have been looked up, the
\* cache holds at most cache_size entries, and a lookup that finds the cache
\* full deletes half of its entries before it inserts its result.
C21_CacheWithinCacheSize ==
    /\ Len(enricher.cache) <= enricher.cache_size
    /\ (enricher.last.inserted /\ enricher.last.before >= enricher.cache_size)
          => 2 * enricher.last.evicted >= enricher.last.before - 1

\* ------------------------------------------------------------- the strategies: member order
\* the position at which a strategy received the record e in its input
PositionIn(input, e) == CHOOSE n \in 1..Len(input) : input[n].uid = e.uid

\* the records of entries are records of input, in the order input has them
InReceivedOrder(input, entries) ==
    /\ \A p \in 1..Len(entries) : \E n \in 1..Len(input) : input[n] = entries[p]
    /\ \A p, q \in 1..Len(entries) :
          p < q => PositionIn(input, entries[p]) < PositionIn(input, entries[q])

\* C22: whichever of the three strategies execute() has run, the members of
\* every group it emitted are in the relative order in which the strategy
\* received them from its input.
C22_GroupsKeepReceivedOrder ==
    \A p \in 1..Len(exec.applied) :
        \A n \in 1..Len(exec.applied[p].groups) :
            InReceivedOrder(exec.applied[p].input, exec.applied[p].groups[n].entries)

\* Two strategies have emitted groups, one of them a group whose members were
\* not next to each other in the input.
C22_Witness ==
    /\ exec.pc = "done"
    /\ Cardinality({p \in 1..Len(exec.applied) : exec.applied[p].groups # <<>>}) >= 2
    /\ \E p \in 1..Len(exec.applied) :
       \E n \in 1..Len(exec.applied[p].groups) :
          LET g == exec.applied[p].groups[n].entries
              input == exec.applied[p].input
          IN \E m \in 1..(Len(g) - 1) :
                PositionIn(input, g[m + 1]) > PositionIn(input, g[m]) + 1

\* ------------------------------------------------------------- ParseLogsUseCase: claims
\* the records of the lines of source from position n on that are not blank
RECURSIVE RecordsOfLines(_, _)
RecordsOfLines(source, n) ==
    IF n > Len(source) THEN <<>>
    ELSE (IF Strip(source[n]) # <<>> THEN <<UcEntry(Strip(source[n]), n)>> ELSE <<>>)
         \o RecordsOfLines(source, n + 1)

\* C23: execute() yields exactly one record per line of the source that is not
\* blank, in line order, each with the line's 1-based position as line_number,
\* whether the source is shorter than, as long as or longer than sample_size.
C23_OneRecordPerLine ==
    LET expected == RecordsOfLines(usecase.source, 1)
    IN /\ Len(usecase.yielded) <= Len(expected)
       /\ usecase.yielded = SubSeq(expected, 1, Len(usecase.yielded))
       /\ usecase.pc = "done" => usecase.yielded = expected

\* A source longer than the sample, with lines that are not blank on both sides
\* of the boundary and a blank line among them, has been parsed to its end.
C23_Witness ==
    /\ usecase.pc = "done"
    /\ usecase.sample_size > 0
    /\ Len(usecase.source) > usecase.sample_size + 1
    /\ Len(usecase.remaining_lines) = 1
    /\ Len(usecase.yielded) >= 2
    /\ Len(usecase.yielded) < Len(usecase.source)
    /\ usecase.yielded[Len(usecase.yielded)].line_number = Len(usecase.source)

\* ------------------------------------------------------------- LevelNormalizer: claims
\* the levels hinted by the recognised values under the aliases of a record
HintedLevels(entry) ==
    {LEVEL_ALIASES(Lower(Str(entry.structured_data[f]))) :
        f \in Range(LevelHintFields) \cap DOMAIN entry.structured_data} \ {None}

\* C24: normalize() gives a record whose level is UNKNOWN, and whose structured
\* data holds a recognised level value under one of the aliases, the hinted
\* level, and leaves a record whose level is not UNKNOWN unchanged.
C24_UnknownLevelTakesHint ==
    levelstep.pc = "done" =>
        IF levelstep.entry.level[2] = "UNKNOWN"
        THEN HintedLevels(levelstep.entry) # {}
                => levelstep.result.level[2] \in HintedLevels(levelstep.entry)
        ELSE levelstep.result = levelstep.entry

\* ------------------------------------------------------------- RequestIdCorrelation: identifier
\* the first of fields (from position n on) under which structured_data holds a
\* value that is not empty
RECURSIVE FirstNonEmptyField(_, _, _)
FirstNonEmptyField(fields, sd, n) ==
    IF n > Len(fields) THEN None
    ELSE IF fields[n] \in DOMAIN sd /\ Truthy(Str(sd[fields[n]])) THEN fields[n]
    ELSE FirstNonEmptyField(fields, sd, n + 1)

\* the first non-empty value in the order request_id, trace_id, correlation_id,
\* session_id of correlation, then the alias fields of structured_data
FirstNonEmptyId(e) ==
    LET c == e.correlation
        f == FirstNonEmptyField(IdFields, e.structured_data, 1)
    IN IF Truthy(c.request_id) THEN c.request_id
       ELSE IF Truthy(c.trace_id) THEN c.trace_id
       ELSE IF Truthy(c.correlation_id) THEN c.correlation_id
       ELSE IF Truthy(c.session_id) THEN c.session_id
       ELSE IF f # None THEN Str(e.structured_data[f])
       ELSE None

\* C25: the record correlate() has just taken is filed under the first
\* non-empty identifier it carries, in the order request_id, trace_id,
\* correlation_id, session_id of its correlation and then the alias fields of
\* its structured data; an empty value earlier in that order does not keep a
\* non-empty later one from being used.
C25_FiledUnderFirstNonEmptyId ==
    (rid.pc = "run" /\ rid.seen # <<>>) =>
        LET e == rid.seen[Len(rid.seen)]
            v == FirstNonEmptyId(e)
        IN v # None =>
              /\ DictHas(rid.id_groups, v)
              /\ LET held == DictGet(rid.id_groups, v) IN held[Len(held)] = e

\* ------------------------------------------------------------- RequestIdCorrelation: one group per key
\* the records of s that carry the identifier v
WithId(s, v) == SelectSeq(s, LAMBDA e : ExtractId(e) = v)

\* every key is the key of at most one emitted group, and the records of every
\* identifier that at least two input records carry are the members of the
\* group of that key
OneGroupPerKey(st) ==
    /\ \A p, q \in 1..Len(st.emitted) :
          st.emitted[p].correlation_key = st.emitted[q].correlation_key => p = q
    /\ \A n \in 1..Len(st.seen) :
          LET v == ExtractId(st.seen[n])
          IN (Truthy(v) /\ Len(WithId(st.seen, v)) >= 2) =>
                \E p \in 1..Len(st.emitted) :
                    /\ st.emitted[p].correlation_key = v
                    /\ st.emitted[p].entries = WithId(st.seen, v)

\* C26 as stated: whatever the input length and buffer_size, when correlate()
\* has ended every key is in at most one group and no record that shares its
\* identifier with another is left out of that group.
C26_OneGroupPerKey == rid.pc = "done" => OneGroupPerKey(rid)

\* C26: the same for an input of at most buffer_size records, on which the
\* count never exceeds buffer_size and nothing is emitted early.
C26_OneGroupPerKeyWithinBuffer ==
    (rid.pc = "done" /\ Len(rid.seen) <= rid.buffer_size) => OneGroupPerKey(rid)

\* An input of exactly buffer_size records, two of them with one identifier,
\* has been correlated.
C26_Witness ==
    /\ rid.pc = "done"
    /\ Len(rid.seen) = rid.buffer_size
    /\ \E p \in 1..Len(rid.emitted) : Len(rid.emitted[p].entries) >= 2

\* ------------------------------------------------------------- LargeFileStreamSource: claims
\* C27: for every file content, with \r\n line ends, lone \r, a missing final
\* newline or empty lines, the memory-mapped path yields the same sequence of
\* lines as the regular path.
C27_MmapYieldsRegularLines ==
    (largefile.regular.gen = "done" /\ largefile.mmap.gen = "done")
        => largefile.mmap.yielded = largefile.regular.yielded

\* ------------------------------------------------------------- merge: timestamps of mixed kinds
\* C28: _merge_sources never raises, whatever mix of records without
\* timestamp, with naive timestamps and with aware timestamps the sources
\* hold, records of different sources with equal timestamps included.
C28_MergeNeverRaises == merge_pc # "raised"

RECURSIVE HeldInSessions(_)
HeldInSessions(sessions) ==
    IF sessions = <<>> THEN 0
    ELSE Len(Head(sessions)[2][1]) + HeldInSessions(Tail(sessions))

\* C30: while correlate() runs, the tracked sessions never hold more than
\* buffer_size records between them.
C30_SessionsWithinBufferSize ==
    sess.pc = "run" => HeldInSessions(sess.sessions) <= sess.buffer_size

====
